---------------------------- MODULE Spec2Model ----------------------------
(***************************************************************************)
(* A model of organicmaps/wikiparser: the identifier normalizer (Qid,      *)
(* Title), the HTML simplification engine, the article writer and the dump *)
(* processor.                                                              *)
(*                                                                         *)
(* Text is a sequence of characters.  A character is a one-letter string;  *)
(* a fixed word of the program ("wikipedia", "https", a language code) and *)
(* a percent-escape ("%20") is written as one element of the sequence.     *)
(***************************************************************************)
EXTENDS Integers, Sequences, FiniteSets, TLC

VARIABLES
    qidIn,      \* Qid::from_str: the text given
    qidIn2,     \* a second text, parsed beside the first
    qidOut,     \* Qid::from_str(qidIn), once qidPc is past "start"
    qidOut2,    \* Qid::from_str(qidIn2)
    qidShown,   \* Display of the parsed Qid, once qidPc = "shown"
    qidPc,      \* "start", "parsed", "shown"
    tIn,        \* Title: what is given, a (title, lang) pair, a URL or a tag
    tOut,       \* Title: the constructors' results
    tPc,        \* "start", "made", "round"
    hIn,        \* html::process: the document given
    hLang,      \* the language given
    hDoc,       \* the document as the phases have left it
    hApplied,   \* the phases of simplify that have run, in order
    hPayload,   \* the payload of the panic raised, if one was
    hOut,       \* what process returns, once hPc = "done"
    hPc,        \* the step process is at
    wPage,      \* write: the page given
    wRedirects, \* the titles given, the page's aliases
    wHtml,      \* the text to write
    wBefore,    \* the file system before write
    wFs,        \* the file system
    wOut,       \* what write returns, once wPc = "done"
    wPc,        \* "start", "done", "again"
    rArgs,      \* run: the arguments and the match sets loaded from them
    rPage,      \* the record being processed
    rRead,      \* the number of records read
    rFs,        \* the file system
    rLog,       \* the lines of the write_new_qids file
    rStdout,    \* the records copied to stdout
    rPrev,      \* rFs, rLog and rStdout when the record was read
    rResult,    \* how the last matched record ended, as run logs it
    rPc,        \* "read", "page", "matched", "panicked", "exit"
    cFs,        \* concurrent writers: the file system they share
    cMain,      \* each writer's canonical directory
    cPc,        \* each writer's place in the reconciliation of the alias
    cErr,       \* the error a writer failed with
    aTodo,      \* concurrent runs: the QIDs each has yet to append
    aPending,   \* the writes each has yet to make to finish its line
    aFile,      \* the text of the discovery log
    gFile,      \* parse_osm_tag_file: the rows of the file, the header first
    gNext,      \* the number of rows read
    gQids,      \* what qids was extended with, in order
    gTitles,    \* what titles was extended with, in order
    gErrors,    \* what line_errors was extended with, in order
    gOut,       \* what the call returned, once gPc = "done"
    gPc,        \* "headers", "rows", "done"
    pFile,      \* get-tags run: the blobs of the pbf file given
    pBlobs,     \* the blobs no worker has taken yet
    pWork,      \* each worker's records of its blob that it has yet to send
    pChan,      \* the records in the channel
    pSender,    \* the sender is alive
    pRows,      \* the records the writer has written, the header first
    pCount,     \* the writer's count
    pPc,        \* the writer: "start", "rows", "done"
    sPages,     \* successive writes: the pages with their aliases, in order
    sDone,      \* the number of pages written
    sFs,        \* the output tree
    sOut,       \* what each write returned
    xDoc,       \* expand_id alone: the tree it is given
    xCut,       \* the number of nodes detached from the tree beforehand
    xId,        \* the node it is to expand
    xOut,       \* the tree it leaves
    xPc         \* "tree", "done"

qidVars == <<qidIn, qidIn2, qidOut, qidOut2, qidShown, qidPc>>

titleVars == <<tIn, tOut, tPc>>

htmlVars == <<hIn, hLang, hDoc, hApplied, hPayload, hOut, hPc>>

writerVars == <<wPage, wRedirects, wHtml, wBefore, wFs, wOut, wPc>>

runVars == <<rArgs, rPage, rRead, rFs, rLog, rStdout, rPrev, rResult, rPc>>

raceVars == <<cFs, cMain, cPc, cErr>>

appendVars == <<aTodo, aPending, aFile>>

tagVars == <<gFile, gNext, gQids, gTitles, gErrors, gOut, gPc>>

pbfVars == <<pFile, pBlobs, pWork, pChan, pSender, pRows, pCount, pPc>>

treeVars == <<sPages, sDone, sFs, sOut>>

expandVars == <<xDoc, xCut, xId, xOut, xPc>>

lateVars == <<pbfVars, treeVars, expandVars>>

moreVars == <<raceVars, appendVars, tagVars, lateVars>>

vars == <<qidVars, titleVars, htmlVars, writerVars, runVars, moreVars>>

----------------------------------------------------------------------------
(* Bounds of the model.                                                    *)

\* Longest text enumerated exhaustively for Qid::from_str.
MaxQidLen == 3

\* Longest article title, language text, URL title part and tag enumerated
\* exhaustively for the Title constructors.
MaxTitleLen == 3

MaxLangLen == 1

MaxPathLen == 2

MaxTagLen == 3

MaxBlocks == 2

MaxAliases == 2

MaxRecords == 2

MaxProcs == 2

MaxAppends == 3

----------------------------------------------------------------------------
(* str: the operations of Rust's str the program uses.                     *)

\* F applied to the value of v. A function body reads its argument once, as
\* a value; an operator's argument is an expression that each use computes
\* again, so the functions below bind theirs with With.
With(v, F(_)) == CHOOSE r \in {F(x) : x \in {v}} : TRUE

\* char::is_whitespace on the characters of the model.
WhiteSpace == {" ", "\t", "\n"}

RECURSIVE TrimStart(_)
\* str::trim_start
TrimStart(s) ==
    LET Go(t) == IF t # <<>> /\ Head(t) \in WhiteSpace
                 THEN TrimStart(Tail(t)) ELSE t
    IN  With(s, Go)

RECURSIVE TrimEnd(_)
\* str::trim_end
TrimEnd(s) ==
    LET Go(t) == IF t # <<>> /\ t[Len(t)] \in WhiteSpace
                 THEN TrimEnd(SubSeq(t, 1, Len(t) - 1)) ELSE t
    IN  With(s, Go)

\* str::trim
Trim(s) == TrimEnd(TrimStart(s))

\* str::replace(from, to) for one character
Replace(s, from, to) ==
    LET Go(t) == [i \in 1..Len(t) |-> IF t[i] = from THEN to ELSE t[i]]
    IN  With(s, Go)

\* str::starts_with
StartsWith(s, p) ==
    LET Go(t) == Len(t) >= Len(p) /\ SubSeq(t, 1, Len(p)) = p
    IN  With(s, Go)

\* str::strip_prefix(p).unwrap_or(s)
StripPrefixOr(s, p) ==
    LET Go(t) == IF StartsWith(t, p) THEN SubSeq(t, Len(p) + 1, Len(t)) ELSE t
    IN  With(s, Go)

\* The places of character c in s.
Places(s, c) ==
    LET Go(t) == {i \in 1..Len(t) : t[i] = c}
    IN  With(s, Go)

\* The least element of a non-empty set of numbers.
Least(S) == CHOOSE i \in S : \A j \in S : i <= j

\* str::split_once(c): None, or (before, after) the first c.
SplitOnce(s, c) ==
    LET At(t, ps) ==
            IF ps = {}
            THEN [some |-> FALSE, before |-> <<>>, after |-> <<>>]
            ELSE LET i == Least(ps)
                 IN  [some |-> TRUE,
                      before |-> SubSeq(t, 1, i - 1),
                      after |-> SubSeq(t, i + 1, Len(t))]
        Go(t) == LET Cut(ps) == At(t, ps) IN With(Places(t, c), Cut)
    IN  With(s, Go)

\* All texts over alphabet A of length at most n.
RECURSIVE TextsUpTo(_, _)
TextsUpTo(A, n) ==
    IF n = 0 THEN {<<>>}
    ELSE LET shorter == TextsUpTo(A, n - 1)
         IN  shorter \cup {Append(s, c) : s \in shorter, c \in A}

----------------------------------------------------------------------------
(* wm/qid.rs: Qid                                                          *)

Digits == <<"0", "1", "2", "3", "4", "5", "6", "7", "8", "9">>

DigitChars == {Digits[i] : i \in 1..10}

DigitVal(c) == (CHOOSE i \in 1..10 : Digits[i] = c) - 1

\* A u32 is kept as two 16-bit halves, value = hi * 65536 + lo, so that no
\* intermediate result leaves TLC's integers.
Half == 65536

U32Zero == [hi |-> 0, lo |-> 0]

\* checked_mul(10) followed by checked_add(d): None on overflow of 32 bits.
U32MulAdd(v, d) ==
    LET lo10 == v.lo * 10 + d
        hi10 == v.hi * 10 + (lo10 \div Half)
    IN  IF hi10 >= Half
        THEN [some |-> FALSE, hi |-> 0, lo |-> 0]
        ELSE [some |-> TRUE, hi |-> hi10, lo |-> lo10 % Half]

RECURSIVE U32Digits(_, _)
\* The digit loop of u32::from_str: left to right, failing at the first
\* character that is no digit or the first overflow.
U32Digits(s, acc) ==
    IF s = <<>> THEN [ok |-> TRUE, value |-> acc]
    ELSE IF Head(s) \notin DigitChars
         THEN [ok |-> FALSE, err |-> "InvalidDigit"]
         ELSE LET nxt == U32MulAdd(acc, DigitVal(Head(s)))
              IN  IF ~nxt.some
                  THEN [ok |-> FALSE, err |-> "PosOverflow"]
                  ELSE U32Digits(Tail(s), [hi |-> nxt.hi, lo |-> nxt.lo])

\* u32::from_str (core::num): an empty text fails; a lone sign fails; one
\* leading '+' is accepted; '-' is no digit of an unsigned type.
U32FromStr(s) ==
    IF s = <<>> THEN [ok |-> FALSE, err |-> "Empty"]
    ELSE IF Len(s) = 1 /\ s[1] \in {"+", "-"}
         THEN [ok |-> FALSE, err |-> "InvalidDigit"]
         ELSE IF s[1] = "+" THEN U32Digits(Tail(s), U32Zero)
              ELSE U32Digits(s, U32Zero)

\* A plausible slip: the leading Q is stripped before the text is trimmed.
Qid_from_str_StripFirst(s) ==
    LET r == U32FromStr(Trim(IF s # <<>> /\ s[1] \in {"Q", "q"} THEN Tail(s) ELSE s))
    IN  IF r.ok THEN [ok |-> TRUE, qid |-> r.value]
        ELSE [ok |-> FALSE, err |-> r.err]

\* Qid::from_str
Qid_from_str(s) ==
    LET t == Trim(s)
        u == IF t # <<>> /\ t[1] \in {"Q", "q"} THEN Tail(t) ELSE t
        r == U32FromStr(u)
    IN  IF r.ok THEN [ok |-> TRUE, qid |-> r.value]
        ELSE [ok |-> FALSE, err |-> r.err]

RECURSIVE U32ToString(_)
\* u32's Display: decimal, no leading zeros.
U32ToString(v) ==
    LET qhi == v.hi \div 10
        t   == (v.hi % 10) * Half + v.lo
        qlo == t \div 10
        d   == t % 10
    IN  IF qhi = 0 /\ qlo = 0 THEN <<Digits[d + 1]>>
        ELSE Append(U32ToString([hi |-> qhi, lo |-> qlo]), Digits[d + 1])

\* impl Display for Qid: "Q{}"
Qid_to_string(q) == <<"Q">> \o U32ToString(q)

----------------------------------------------------------------------------
(* The url and urlencoding crates, as far as Title::from_url reads them.   *)

\* The words of a text that are made of ASCII letters only.
AlphaWords ==
    {"A", "B", "S", "en", "de", "EN", "m", "w", "wiki", "wikipedia", "wikidata",
     "org", "http", "https", "Article", "Title", "Breil", "Brigels"}

\* ASCII lower case, as the URL parser applies it to a scheme and a domain.
Lower(c) ==
    CASE c = "EN" -> "en"
      [] c = "A" -> "a"
      [] c = "B" -> "b"
      [] c = "S" -> "s"
      [] c = "Article" -> "article"
      [] c = "Title" -> "title"
      [] c = "Breil" -> "breil"
      [] c = "Brigels" -> "brigels"
      [] OTHER -> c

LowerText(s) ==
    LET Go(t) == [i \in 1..Len(t) |-> Lower(t[i])]
    IN  With(s, Go)

\* The percent-escapes of the model and the character each stands for.
Escapes ==
    { <<"%20", " ">>, <<"%09", "\t">>, <<"%2F", "/">>, <<"%23", "#">>,
      <<"%25", "%">>, <<"%3A", ":">>, <<"%3F", "?">> }

EscapeChars == {e[1] : e \in Escapes}

\* An escape of a byte sequence that is no UTF-8.
BadEscape == "%FF"

Unescape(c) == (CHOOSE e \in Escapes : e[1] = c)[2]

\* urlencoding::decode: every escape becomes its character; the result must
\* be UTF-8.
UrlDecode(s) ==
    LET Go(t) ==
            IF \E i \in 1..Len(t) : t[i] = BadEscape
            THEN [ok |-> FALSE, text |-> <<>>]
            ELSE [ok |-> TRUE,
                  text |-> [i \in 1..Len(t) |->
                               IF t[i] \in EscapeChars THEN Unescape(t[i])
                               ELSE t[i]]]
    IN  With(s, Go)

RECURSIVE Without(_, _)
\* The text with every character c removed.
Without(s, c) ==
    LET Go(t) == IF t = <<>> THEN <<>>
                 ELSE IF Head(t) = c THEN Without(Tail(t), c)
                 ELSE <<Head(t)>> \o Without(Tail(t), c)
    IN  With(s, Go)

\* A URL scheme: a letter, then letters, '+', '-' or '.'.
IsScheme(s) ==
    LET Go(t) == /\ t # <<>>
                 /\ t[1] \in AlphaWords
                 /\ \A i \in 1..Len(t) : t[i] \in AlphaWords \cup {"+", "-", "."}
    IN  With(s, Go)

\* The first place of s that holds a character of set C, or Len(s) + 1.
FirstOf(s, C) ==
    LET Go(t) == IF \E i \in 1..Len(t) : t[i] \in C
                 THEN Least({i \in 1..Len(t) : t[i] \in C})
                 ELSE Len(t) + 1
    IN  With(s, Go)

\* The characters of s.
Chars(s) ==
    LET Go(t) == {t[i] : i \in 1..Len(t)}
    IN  With(s, Go)

RECURSIVE SkipSlashes(_)
\* The special-scheme parser ignores every slash before the authority.
SkipSlashes(s) ==
    LET Go(t) == IF t # <<>> /\ Head(t) = "/" THEN SkipSlashes(Tail(t)) ELSE t
    IN  With(s, Go)

\* Characters a domain may not hold (after percent-decoding).
ForbiddenHostChars == {" ", "\t", "#", "%", "/", ":", "?", BadEscape}

RECURSIVE Segments(_)
\* The path text (after its leading '/') cut at every '/'.
Segments(s) ==
    LET Go(t) ==
            LET Cut(c) == IF ~c.some THEN <<t>>
                          ELSE <<c.before>> \o Segments(c.after)
            IN  With(SplitOnce(t, "/"), Cut)
    IN  With(s, Go)

RECURSIVE DotFree(_, _)
\* The URL standard's path state: "." is dropped and ".." drops the segment
\* before it; either as the last segment leaves an empty one.
DotFree(segs, done) ==
    LET Go(a) ==
            IF a[1] = <<>> THEN a[2]
            ELSE LET g == Head(a[1])
                     last == Len(a[1]) = 1
                     kept == IF g = <<".", ".">>
                             THEN IF a[2] = <<>> THEN a[2]
                                  ELSE SubSeq(a[2], 1, Len(a[2]) - 1)
                             ELSE IF g = <<".">> THEN a[2] ELSE Append(a[2], g)
                     closed == IF last /\ g \in {<<".">>, <<".", ".">>}
                               THEN Append(kept, <<>>) ELSE kept
                 IN  DotFree(Tail(a[1]), closed)
    IN  With(<<segs, done>>, Go)

RECURSIVE JoinPath(_)
\* "/" before every segment.
JoinPath(segs) ==
    LET Go(t) == IF t = <<>> THEN <<>>
                 ELSE <<"/">> \o Head(t) \o JoinPath(Tail(t))
    IN  With(segs, Go)

\* The path percent-encode set, on the characters of the model: a space.
PathEncode(s) == Replace(s, " ", "%20")

\* Url::path() of a special-scheme URL whose path text is p ("" or "/...").
UrlPath(p) ==
    LET Join(segs) == IF segs = <<>> THEN <<"/">> ELSE PathEncode(JoinPath(segs))
        Go(t) == IF t = <<>> THEN <<"/">>
                 ELSE With(DotFree(Segments(Tail(t)), <<>>), Join)
    IN  With(p, Go)

\* Url::parse, then host_str() and path(): the parse fails, or gives a host
\* (or none) and a path.
UrlParse(text) ==
    LET After(c) ==
            IF ~c.some \/ ~IsScheme(c.before)
            THEN [ok |-> FALSE, err |-> "RelativeUrlWithoutBase"]
            ELSE
            LET special == LowerText(c.before) \in {<<"http">>, <<"https">>}
                slashes == StartsWith(c.after, <<"/", "/">>)
                Parts(rest) ==
                    LET a    == FirstOf(rest, {"/", "?", "#"})
                        auth == SubSeq(rest, 1, a - 1)
                        tail == SubSeq(rest, a, Len(rest))
                        hp   == SplitOnce(auth, ":")
                        e    == FirstOf(tail, {"?", "#"})
                    IN  [host |-> IF hp.some THEN hp.before ELSE auth,
                         port |-> IF hp.some THEN hp.after ELSE <<>>,
                         path |-> SubSeq(tail, 1, e - 1)]
                Checked(r) ==
                    LET Decoded(dec) ==
                            IF ~(Chars(r.port) \subseteq DigitChars)
                            THEN [ok |-> FALSE, err |-> "InvalidPort"]
                            ELSE IF r.host = <<>>
                            THEN IF special
                                 THEN [ok |-> FALSE, err |-> "EmptyHost"]
                                 ELSE [ok |-> TRUE, hasHost |-> FALSE,
                                       host |-> <<>>, path |-> r.path]
                            ELSE IF special
                                    /\ (~dec.ok
                                          \/ Chars(dec.text) \cap ForbiddenHostChars # {})
                            THEN [ok |-> FALSE, err |-> "InvalidDomainCharacter"]
                            ELSE IF ~special
                                    /\ Chars(r.host)
                                          \cap (ForbiddenHostChars \ {"%", BadEscape}) # {}
                            THEN [ok |-> FALSE, err |-> "InvalidDomainCharacter"]
                            ELSE [ok |-> TRUE, hasHost |-> TRUE,
                                  host |-> IF special THEN LowerText(dec.text)
                                           ELSE r.host,
                                  path |-> IF ~special /\ r.path = <<>> THEN <<>>
                                           ELSE UrlPath(r.path)]
                    IN  With(UrlDecode(r.host), Decoded)
                Go(rest) == With(Parts(rest), Checked)
            IN  IF ~special /\ ~slashes
                THEN [ok |-> TRUE, hasHost |-> FALSE, host |-> <<>>,
                      path |-> c.after]
                ELSE With(IF special THEN SkipSlashes(c.after)
                          ELSE SubSeq(c.after, 3, Len(c.after)), Go)
    IN  With(SplitOnce(Without(text, "\t"), ":"), After)

----------------------------------------------------------------------------
(* wm/title.rs: Title                                                      *)

TitleErr(e) == [ok |-> FALSE, err |-> e]

\* A plausible slip: the title is trimmed and its spaces are kept.
normalize_title_KeepSpaces(title) == Trim(title)

\* Title::normalize_title
normalize_title(title) == Replace(Trim(title), " ", "_")

\* A plausible slip: the language is not checked for being empty.
Title_from_title_AnyLang(title, lang) ==
    LET t == Trim(title)
        l == Trim(lang)
    IN  IF t = <<>> THEN TitleErr("NoTitle")
        ELSE [ok |-> TRUE, title |-> [lang |-> l, name |-> normalize_title(t)]]

\* Title::from_title
Title_from_title(title, lang) ==
    LET t == Trim(title)
        l == Trim(lang)
    IN  IF t = <<>> THEN TitleErr("NoTitle")
        ELSE IF l = <<>> THEN TitleErr("NoLang")
        ELSE [ok |-> TRUE, title |-> [lang |-> l, name |-> normalize_title(t)]]

\* A plausible slip: the first path segment is not compared with "wiki".
Title_from_url_AnyRoot(url) ==
    LET Titled(u, h, p) ==
            IF ~p.some THEN TitleErr("ShortPath")
            ELSE LET Decoded(d) == IF ~d.ok THEN TitleErr("UrlDecode")
                                   ELSE Title_from_title(d.text, h.before)
                 IN  With(UrlDecode(p.after), Decoded)
        Hosted(u, h) ==
            IF ~h.some THEN TitleErr("NoSubdomain")
            ELSE IF StripPrefixOr(h.after, <<"m", ".">>) # <<"wikipedia", ".", "org">>
            THEN TitleErr("BadDomain")
            ELSE LET Go(p) == Titled(u, h, p)
                 IN  With(SplitOnce(StripPrefixOr(u.path, <<"/">>), "/"), Go)
        Parsed(u) ==
            IF ~u.ok THEN TitleErr("Url")
            ELSE IF ~u.hasHost THEN TitleErr("NoHost")
            ELSE LET Go(h) == Hosted(u, h)
                 IN  With(SplitOnce(u.host, "."), Go)
    IN  With(UrlParse(Trim(url)), Parsed)

\* Title::from_url
Title_from_url(url) ==
    LET Titled(u, h, p) ==
            IF ~p.some THEN TitleErr("ShortPath")
            ELSE IF p.before # <<"wiki">> THEN TitleErr("BadPath")
            ELSE LET Decoded(d) == IF ~d.ok THEN TitleErr("UrlDecode")
                                   ELSE Title_from_title(d.text, h.before)
                 IN  With(UrlDecode(p.after), Decoded)
        Hosted(u, h) ==
            IF ~h.some THEN TitleErr("NoSubdomain")
            ELSE IF StripPrefixOr(h.after, <<"m", ".">>) # <<"wikipedia", ".", "org">>
            THEN TitleErr("BadDomain")
            ELSE LET Go(p) == Titled(u, h, p)
                 IN  With(SplitOnce(StripPrefixOr(u.path, <<"/">>), "/"), Go)
        Parsed(u) ==
            IF ~u.ok THEN TitleErr("Url")
            ELSE IF ~u.hasHost THEN TitleErr("NoHost")
            ELSE LET Go(h) == Hosted(u, h)
                 IN  With(SplitOnce(u.host, "."), Go)
    IN  With(UrlParse(Trim(url)), Parsed)

\* A plausible slip: a URL behind a language prefix is read as a title.
Title_from_osm_tag_BareOnly(tag) ==
    LET Go(c) ==
            IF ~c.some THEN TitleErr("MissingColon")
            ELSE LET lang == TrimStart(c.before)
                     title == TrimStart(c.after)
                 IN  IF lang \in {<<"http">>, <<"https">>}
                     THEN Title_from_url(tag)
                     ELSE Title_from_title(title, lang)
    IN  With(SplitOnce(Trim(tag), ":"), Go)

\* Title::from_osm_tag
Title_from_osm_tag(tag) ==
    LET Go(c) ==
            IF ~c.some THEN TitleErr("MissingColon")
            ELSE LET lang == TrimStart(c.before)
                     title == TrimStart(c.after)
                     whole == lang \in {<<"http">>, <<"https">>}
                 IN  IF whole
                        \/ StartsWith(title, <<"http", ":", "/", "/">>)
                        \/ StartsWith(title, <<"https", ":", "/", "/">>)
                     THEN Title_from_url(IF whole THEN tag ELSE title)
                     ELSE Title_from_title(title, lang)
    IN  With(SplitOnce(Trim(tag), ":"), Go)

----------------------------------------------------------------------------
(* The texts Qid::from_str is applied to.                                  *)

QidAlphabet == {"Q", "q", " ", "+", "-", "0", "7", "x"}

\* The texts of the documentation test and of the specification, and the
\* texts around the largest u32.
QidNamedTexts ==
    { <<"Q", "1", "2", "3", "4", "5">>,
      <<"1", "2", "3", "4", "5">>,
      <<" ", "1", "2", "3", "4", "5", " ">>,
      <<" ", "q", "1", "2", "3", "4", "5", " ">>,
      <<"q", "1", "2", "3", "4", "5">>,
      <<"Q", "0", "0", "1", "2", "3", "4", "5">>,
      <<"A", "r", "t", "i", "c", "l", "e", "_", "T", "i", "t", "l", "e">>,
      <<"4", "2", "9", "4", "9", "6", "7", "2", "9", "5">>,
      <<"Q", "4", "2", "9", "4", "9", "6", "7", "2", "9", "5">>,
      <<"4", "2", "9", "4", "9", "6", "7", "2", "9", "6">>,
      <<"Q", "4", "2", "9", "4", "9", "6", "7", "2", "9", "6">>,
      <<"4", "2", "9", "4", "9", "6", "7", "3", "0", "0">>,
      <<"Q", "0", "4", "2", "9", "4", "9", "6", "7", "2", "9", "5">>,
      <<"+", "4", "2", "9", "4", "9", "6", "7", "2", "9", "5">>,
      <<"4", "2", "9", "4", "9", "6", "7", "2", "9", "5", "0">>,
      <<"9", "9", "9", "9", "9", "9", "9", "9", "9", "9">>,
      <<"1", "0", "0", "0", "0", "0", "0", "0", "0", "0", "0">>,
      <<"6", "5", "5", "3", "6">>,
      <<"Q", "6", "5", "5", "3", "5">> }

QidTexts == TextsUpTo(QidAlphabet, MaxQidLen) \cup QidNamedTexts

QidSecondTexts ==
    { <<"Q", "7">>, <<" ", "q", "0", "7", " ">>, <<"7", "0">>, <<"0">>,
      <<"Q", "1", "2", "3", "4", "5">>,
      <<"4", "2", "9", "4", "9", "6", "7", "2", "9", "5">>,
      <<"Q">> }

\* The value of a result that has not been computed.
NotRun == [ok |-> FALSE, err |-> "NotRun"]

\* The Title constructors are not being run.
TitleIdle ==
    /\ tIn = [kind |-> "none"]
    /\ tOut = [main |-> NotRun, alt |-> NotRun, tag |-> NotRun,
               wrapped |-> <<>>]
    /\ tPc = "idle"

\* No panic has been raised.
NoPayload == [kind |-> "none", msg |-> <<>>]

\* html::process is not being run.
HtmlIdle ==
    /\ hIn = <<>>
    /\ hLang = <<>>
    /\ hDoc = <<>>
    /\ hApplied = <<>>
    /\ hPayload = NoPayload
    /\ hOut = NotRun
    /\ hPc = "idle"

\* No concurrent writers.
RaceIdle ==
    /\ cFs = <<>>
    /\ cMain = <<>>
    /\ cPc = <<>>
    /\ cErr = <<>>

\* No concurrent runs appending to a discovery log.
AppendIdle ==
    /\ aTodo = <<>>
    /\ aPending = <<>>
    /\ aFile = <<>>

\* parse_osm_tag_file is not being run.
TagsIdle ==
    /\ gFile = <<>>
    /\ gNext = 0
    /\ gQids = <<>>
    /\ gTitles = <<>>
    /\ gErrors = <<>>
    /\ gOut = NotRun
    /\ gPc = "idle"

\* The get-tags run is not being run.
PbfIdle ==
    /\ pFile = <<>>
    /\ pBlobs = <<>>
    /\ pWork = <<>>
    /\ pChan = <<>>
    /\ pSender = FALSE
    /\ pRows = <<>>
    /\ pCount = 0
    /\ pPc = "idle"

\* No successive writes into one tree.
TreeIdle ==
    /\ sPages = <<>>
    /\ sDone = 0
    /\ sFs = <<>>
    /\ sOut = <<>>

\* expand_id is not being run alone.
ExpandIdle ==
    /\ xDoc = <<>>
    /\ xCut = 0
    /\ xId = 0
    /\ xOut = <<>>
    /\ xPc = "idle"

LateIdle == PbfIdle /\ TreeIdle /\ ExpandIdle

MoreIdle == RaceIdle /\ AppendIdle /\ TagsIdle /\ LateIdle

\* run is not being run.
RunIdle ==
    /\ rArgs = <<>>
    /\ rPage = <<>>
    /\ rRead = 0
    /\ rFs = <<>>
    /\ rLog = <<>>
    /\ rStdout = <<>>
    /\ rPrev = <<>>
    /\ rResult = "none"
    /\ rPc = "idle"

\* write is not being run.
WriterIdle ==
    /\ wPage = <<>>
    /\ wRedirects = <<>>
    /\ wHtml = <<>>
    /\ wBefore = <<>>
    /\ wFs = <<>>
    /\ wOut = NotRun
    /\ wPc = "idle"

\* Qid::from_str is not being run.
QidIdle ==
    /\ qidIn = <<>>
    /\ qidIn2 = <<>>
    /\ qidOut = NotRun
    /\ qidOut2 = NotRun
    /\ qidShown = <<>>
    /\ qidPc = "idle"

QidInit ==
    /\ TitleIdle
    /\ HtmlIdle
    /\ WriterIdle
    /\ RunIdle
    /\ MoreIdle
    /\ qidIn \in QidTexts
    /\ qidIn2 \in QidSecondTexts
    /\ qidOut = NotRun
    /\ qidOut2 = NotRun
    /\ qidShown = <<>>
    /\ qidPc = "start"

\* Both texts are parsed.
QidParse ==
    /\ qidPc = "start"
    /\ qidOut' = Qid_from_str(qidIn)
    /\ qidOut2' = Qid_from_str(qidIn2)
    /\ qidPc' = "parsed"
    /\ UNCHANGED <<qidIn, qidIn2, qidShown, titleVars, htmlVars, writerVars, runVars, moreVars>>

\* The parsed Qid is formatted.
QidShow ==
    /\ qidPc = "parsed"
    /\ qidOut.ok
    /\ qidShown' = Qid_to_string(qidOut.qid)
    /\ qidPc' = "shown"
    /\ UNCHANGED <<qidIn, qidIn2, qidOut, qidOut2, titleVars, htmlVars, writerVars, runVars, moreVars>>

QidNext == QidParse \/ QidShow

SpecQid == QidInit /\ [][QidNext]_vars

----------------------------------------------------------------------------
(* The inputs the Title constructors are applied to.                       *)

TitleAlphabet == {"A", " ", "\t", "/", ".", ":", "%"}

LangAlphabet == {"en", "EN", " ", ":", "https"}

PathAlphabet == {"A", " ", "_", "/", ".", "%20", "%FF"}

TagAlphabet == {"en", "A", " ", ":", "\t"}

\* The (title, lang) pairs: every short title with every short language
\* text, and the titles and languages of the documentation test.
TitleTexts ==
    TextsUpTo(TitleAlphabet, MaxTitleLen)
        \cup { <<"Article", " ", "Title">>,
               <<"https", ":", "/", "/", "en", ".", "wikipedia", ".", "org",
                 "/", "wiki", "/", "A">>,
               <<"Breil", "/", "Brigels">> }

LangTexts ==
    TextsUpTo(LangAlphabet, MaxLangLen)
        \cup { <<" ", "en", " ">>, <<"de">>, <<"http">>, <<"en", ".", "m">> }

TitlePairs == [kind : {"pair"}, title : TitleTexts, lang : LangTexts]

\* The URLs: a scheme part, a host, a path and what follows the path.
UrlSchemes ==
    { <<"https", ":", "/", "/">>, <<"http", ":", "/", "/">>, <<"https", ":">>,
      <<"en", ":", "/", "/">>, <<>> }

UrlHosts ==
    { <<"en", ".", "wikipedia", ".", "org">>,
      <<"en", ".", "m", ".", "wikipedia", ".", "org">>,
      <<"EN", ".", "wikipedia", ".", "org">>,
      <<"de", ".", "m", ".", "m", ".", "wikipedia", ".", "org">>,
      <<"m", ".", "wikipedia", ".", "org">>,
      <<"wikipedia", ".", "org">>,
      <<"wikidata", ".", "org">>,
      <<"en", ".", "wikidata", ".", "org">>,
      <<"en", ".", "wikipedia", ".", "org", ".">>,
      <<>> }

UrlPaths ==
    {<<>>}
        \cup {<<"/">> \o root : root \in {<<"wiki">>, <<"w">>, <<>>, <<"not_a_wiki_page">>}}
        \cup {<<"/">> \o root \o <<"/">> \o t :
                root \in {<<"wiki">>, <<"w">>, <<>>},
                t \in TextsUpTo(PathAlphabet, MaxPathLen)
                        \cup { <<"Article", "_", "Title">>,
                               <<"Breil", "/", "Brigels">>, <<"Breil">>,
                               <<"Q12345">> }}

UrlTails == { <<>>, <<"#", "S">>, <<"?", "A">> }

TitleUrls ==
    [kind : {"url"}, scheme : UrlSchemes, host : UrlHosts, path : UrlPaths,
     tail : UrlTails]

\* The text of a URL given by its parts.
UrlText(u) == u.scheme \o u.host \o u.path \o u.tail

TitleTags ==
    [kind : {"tag"},
     tag : TextsUpTo(TagAlphabet, MaxTagLen)
             \cup { <<"en", ":", "Article", " ", "Title">>,
                    <<"de", ":", "https", ":", "/", "/", "en", ".", "m", ".",
                      "wikipedia", ".", "org", "/", "wiki", "/", "Article", "_",
                      "Title", "#", "S">> }]

\* Wikipedia's form of a title in a URL: spaces as underscores, then every
\* character that is not plain in a path percent-encoded ('/' and ':' are
\* plain).
InUrl(title) ==
    LET u == Replace(Trim(title), " ", "_")
    IN  [i \in 1..Len(u) |->
            CASE u[i] = "\t" -> "%09"
              [] u[i] = "%" -> "%25"
              [] u[i] = "#" -> "%23"
              [] u[i] = "?" -> "%3F"
              [] OTHER -> u[i]]

\* https://<lang>.wikipedia.org/wiki/<title>
EquivUrl(title, lang) ==
    <<"https", ":", "/", "/">> \o Trim(lang)
        \o <<".", "wikipedia", ".", "org", "/", "wiki", "/">> \o InUrl(title)

\* <lang>:<title>
EquivTag(title, lang) == lang \o <<":">> \o title

\* The language prefixes a URL is wrapped in.
WrapLangs == { <<"de">>, <<>> }

\* <lang>:<url>
WrappedTag(lang, url) == lang \o <<":">> \o url

\* The URL with the mobile label and what follows the path taken away.
PlainUrl(u) ==
    LET h == SplitOnce(u.host, ".")
        host == IF h.some /\ StartsWith(h.after, <<"m", ".">>)
                THEN h.before \o <<".">> \o SubSeq(h.after, 3, Len(h.after))
                ELSE u.host
    IN  u.scheme \o host \o u.path

TitleInit ==
    /\ QidIdle
    /\ HtmlIdle
    /\ WriterIdle
    /\ RunIdle
    /\ MoreIdle
    /\ tIn \in TitlePairs \cup TitleUrls \cup TitleTags
    /\ tOut = [main |-> NotRun, alt |-> NotRun, tag |-> NotRun,
               wrapped |-> <<>>]
    /\ tPc = "start"

\* Title::from_title on the pair.
TitleFromTitle ==
    /\ tPc = "start" /\ tIn.kind = "pair"
    /\ tOut' = [tOut EXCEPT !.main = Title_from_title(tIn.title, tIn.lang)]
    /\ tPc' = "made"
    /\ UNCHANGED <<tIn, qidVars, htmlVars, writerVars, runVars, moreVars>>

\* Title::from_url and Title::from_osm_tag on the pair's URL and tag.
TitleRoundTrip ==
    /\ tPc = "made" /\ tIn.kind = "pair"
    /\ tOut' = [tOut EXCEPT
                  !.alt = Title_from_url(EquivUrl(tIn.title, tIn.lang)),
                  !.tag = Title_from_osm_tag(EquivTag(tIn.title, tIn.lang))]
    /\ tPc' = "round"
    /\ UNCHANGED <<tIn, qidVars, htmlVars, writerVars, runVars, moreVars>>

\* Title::from_url on the URL and on its plain form, and Title::from_osm_tag
\* on the URL and on the URL behind a language prefix.
TitleFromUrl ==
    /\ tPc = "start" /\ tIn.kind = "url"
    /\ LET made == [plain \in BOOLEAN |->
                        Title_from_url(IF plain THEN PlainUrl(tIn)
                                       ELSE UrlText(tIn))]
       IN  tOut' = [main |-> made[FALSE],
                    alt |-> made[TRUE],
                    tag |-> Title_from_osm_tag(UrlText(tIn)),
                    wrapped |-> [l \in WrapLangs |->
                                   Title_from_osm_tag(WrappedTag(l, UrlText(tIn)))]]
    /\ tPc' = "made"
    /\ UNCHANGED <<tIn, qidVars, htmlVars, writerVars, runVars, moreVars>>

\* Title::from_osm_tag on the tag.
TitleFromOsmTag ==
    /\ tPc = "start" /\ tIn.kind = "tag"
    /\ tOut' = [tOut EXCEPT !.main = Title_from_osm_tag(tIn.tag)]
    /\ tPc' = "made"
    /\ UNCHANGED <<tIn, qidVars, htmlVars, writerVars, runVars, moreVars>>

TitleNext == TitleFromTitle \/ TitleRoundTrip \/ TitleFromUrl \/ TitleFromOsmTag

SpecTitle == TitleInit /\ [][TitleNext]_vars

----------------------------------------------------------------------------
(* html.rs: the document, a scraper::Html over an ego_tree::Tree.  Nodes   *)
(* are numbered as the parser creates them; a node that is detached stays  *)
(* in the tree's storage, with its own children, and has no parent.        *)

\* The value of a node. tag is an element's name, or "#document", "#text",
\* "#comment" or "#doctype"; cls is the element's classes, attrs its other
\* attributes as <<name, value>> pairs, text the characters of a text node.
Node(tag, cls, attrs, text) ==
    [tag |-> tag, cls |-> cls, attrs |-> attrs, text |-> text]

\* NodeId of the root, the Document node.
Root == 1

\* No node (Option::None of a NodeRef).
NoNode == 0

NonElements == {"#document", "#text", "#comment", "#doctype"}

\* A piece of markup before it is parsed: a node and the pieces inside it.
El(tag, cls, attrs, kids) == [node |-> Node(tag, cls, attrs, <<>>), kids |-> kids]

Txt(text) == [node |-> Node("#text", {}, {}, text), kids |-> <<>>]

Comment == [node |-> Node("#comment", {}, {}, <<>>), kids |-> <<>>]

Doctype == [node |-> Node("#doctype", {}, {}, <<>>), kids |-> <<>>]

\* The tree that holds the Document node alone.
EmptyTree ==
    [val |-> <<Node("#document", {}, {}, <<>>)>>, kids |-> << <<>> >>]

RECURSIVE AddTerm(_, _, _)
RECURSIVE AddTerms(_, _, _)
\* The parser appends a node as the last child of p, then what is inside it.
AddTerm(d, p, t) ==
    LET Go(a) ==
            LET id == Len(a[1].val) + 1
            IN  AddTerms([val |-> Append(a[1].val, a[2].node),
                          kids |-> Append([a[1].kids EXCEPT ![p] = Append(@, id)],
                                          <<>>)],
                         id, a[2].kids)
    IN  With(<<d, t>>, Go)

AddTerms(d, p, ts) ==
    LET Go(a) == IF a[2] = <<>> THEN a[1]
                 ELSE AddTerms(AddTerm(a[1], p, Head(a[2])), p, Tail(a[2]))
    IN  With(<<d, ts>>, Go)

\* Html::parse_document: what stands before the html element, then the html
\* element with its head and its body.
parse_document(pre, cls, head, body) ==
    AddTerms(EmptyTree, Root,
             pre \o <<El("html", cls, {},
                         <<El("head", {}, {}, head), El("body", {}, {}, body)>>)>>)

\* The NodeIds of the tree.
Ids(d) == 1..Len(d.val)

\* NodeRef::parent
ParentOf(d, n) ==
    IF \E p \in Ids(d) : \E i \in 1..Len(d.kids[p]) : d.kids[p][i] = n
    THEN CHOOSE p \in Ids(d) : \E i \in 1..Len(d.kids[p]) : d.kids[p][i] = n
    ELSE NoNode

\* Node::is_element
IsElement(d, n) == d.val[n].tag \notin NonElements

RECURSIVE Flat(_)
\* The sequences of ss one after the other.
Flat(ss) ==
    LET Go(t) == IF t = <<>> THEN <<>> ELSE Head(t) \o Flat(Tail(t))
    IN  With(ss, Go)

RECURSIVE Descendants(_, _)
\* NodeRef::descendants: the node, then its subtree in document order.
Descendants(d, n) ==
    <<n>> \o Flat([i \in 1..Len(d.kids[n]) |-> Descendants(d, d.kids[n][i])])

\* The elements among the nodes ns (filter_map(ElementRef::wrap)).
Elements(d, ns) ==
    LET Go(t) == SelectSeq(t, LAMBDA n : IsElement(d, n))
    IN  With(ns, Go)

\* ElementRef::text: the text nodes below the element, in document order.
TextNodes(d, n) ==
    LET Go(t) == SelectSeq(t, LAMBDA m : d.val[m].tag = "#text")
    IN  With(Descendants(d, n), Go)

\* is_empty_or_whitespace
is_empty_or_whitespace(d, n) ==
    \A m \in Chars(TextNodes(d, n)) : Chars(d.val[m].text) \subseteq WhiteSpace

\* The place of x in s.
IndexOf(s, x) == CHOOSE i \in 1..Len(s) : s[i] = x

\* NodeMut::detach for every id of the set ids (remove_ids): each leaves its
\* parent's children and keeps its own.
remove_ids(d, ids) ==
    [d EXCEPT !.kids = [p \in Ids(d) |->
                           SelectSeq(d.kids[p], LAMBDA n : n \notin ids)]]

\* NodeMut::detach: the node leaves its parent's children and keeps its own.
detach(d, id) == remove_ids(d, {id})

\* A plausible slip: the new sibling goes after the node.
insert_id_before_After(d, node, new) ==
    LET Go(p) ==
            LET i == IndexOf(d.kids[p], node)
            IN  [d EXCEPT !.kids[p] = SubSeq(@, 1, i) \o <<new>>
                                         \o SubSeq(@, i + 1, Len(@))]
    IN  With(ParentOf(d, node), Go)

\* NodeMut::insert_id_before: the orphan new becomes the sibling before node.
insert_id_before(d, node, new) ==
    LET Go(p) ==
            LET i == IndexOf(d.kids[p], node)
            IN  [d EXCEPT !.kids[p] = SubSeq(@, 1, i - 1) \o <<new>>
                                         \o SubSeq(@, i, Len(@))]
    IN  With(ParentOf(d, node), Go)

RECURSIVE reparent_children_LastFirst(_, _)
\* A plausible slip: the loop takes the last child each time.
reparent_children_LastFirst(d, id) ==
    IF d.kids[id] = <<>> THEN d
    ELSE reparent_children_LastFirst(
            insert_id_before(detach(d, d.kids[id][Len(d.kids[id])]), id,
                             d.kids[id][Len(d.kids[id])]),
            id)

RECURSIVE reparent_children(_, _)
\* The loop of expand_id: while the node has a first child, the child is
\* detached and inserted before the node.
reparent_children(d, id) ==
    IF d.kids[id] = <<>> THEN d
    ELSE reparent_children(
            insert_id_before(detach(d, Head(d.kids[id])), id, Head(d.kids[id])),
            id)

\* expand_id: the children of the node take its place among its parent's
\* children and the node is detached; a node without a parent is left alone.
expand_id(d, id) ==
    IF ParentOf(d, id) = NoNode THEN d
    ELSE detach(reparent_children(d, id), id)

RECURSIVE expand_ids(_, _)
\* expand_id for each id of the list in turn.
expand_ids(d, ids) ==
    LET Go(a) == IF a[2] = <<>> THEN a[1]
                 ELSE expand_ids(expand_id(a[1], Head(a[2])), Tail(a[2]))
    IN  With(<<d, ids>>, Go)

Headers == {"h1", "h2", "h3", "h4", "h5", "h6", "h7"}

\* The header's name as it compares with another header's name.
HeaderLevel(tag) ==
    CASE tag = "h1" -> 1 [] tag = "h2" -> 2 [] tag = "h3" -> 3 [] tag = "h4" -> 4
      [] tag = "h5" -> 5 [] tag = "h6" -> 6 [] tag = "h7" -> 7

\* Elements the deny list names by their tag alone.
DenyTags ==
    {"table", "div", "figure", "script", "input", "style", "img", "audio",
     "video", "embed", "head"}

\* Classes the deny list names for any element.
DenyClasses ==
    {"mw-editsection", "error", "nomobile", "noprint", "noexcerpt", "sortkey"}

\* Selector::matches for the selectors of the program.
Matches(sel, node) ==
    CASE sel = "HEADERS" -> node.tag \in Headers
      [] sel = "REDIRECT" ->
            /\ node.tag = "link"
            /\ <<"rel", <<"mw:PageProp/redirect">>>> \in node.attrs
      [] sel = "ELEMENT_ALLOW_LIST" ->
            node.tag = "div" /\ node.cls \cap {"excerpt-block", "excerpt"} # {}
      [] sel = "ELEMENT_DENY_LIST" ->
            \/ node.tag \in DenyTags
            \/ node.cls \cap DenyClasses # {}
            \/ node.tag = "ul" /\ "gallery" \in node.cls
            \/ node.tag = "sup" /\ "reference" \in node.cls
            \/ node.tag = "ol" /\ "references" \in node.cls
            \/ /\ node.tag = "span"
               /\ <<"typeof", <<"mw:Transclusion">>>> \in node.attrs
               /\ \E a \in node.attrs :
                     a[1] = "data-mw" /\ "\"audio\":" \in Chars(a[2])
            \/ node.tag = "span" /\ <<"id", <<"coordinates">>>> \in node.attrs

\* Html::select: the nodes in the order of their ids that are elements, have
\* a parent and match.
Select(d, sel) ==
    SelectSeq([i \in Ids(d) |-> i],
              LAMBDA n : IsElement(d, n) /\ ParentOf(d, n) # NoNode
                            /\ Matches(sel, d.val[n]))

\* Html::root_element: the first element among the root's children; None
\* where the library panics.
root_element(d) ==
    LET Go(els) == IF els = <<>> THEN NoNode ELSE Head(els)
    IN  With(Elements(d, d.kids[Root]), Go)

\* The attribute's value as Some(value), or None.
Attr(node, name) ==
    LET vs == {a \in node.attrs : a[1] = name}
    IN  IF vs = {} THEN [some |-> FALSE, value |-> <<>>]
        ELSE [some |-> TRUE, value |-> (CHOOSE a \in vs : TRUE)[2]]

----------------------------------------------------------------------------
(* html.rs: process and the phases of simplify.                            *)

\* A phase's outcome: the document, or the panic it ends in.
Done(d) == [panic |-> FALSE, doc |-> d, msg |-> <<>>]

Panicked(msg) == [panic |-> TRUE, doc |-> EmptyTree, msg |-> msg]

\* The message of Html::root_element when the root has no element child.
RootElementMissing == <<"html node missing">>

\* A plausible slip: the href is not trimmed.
detect_redirect_NoTrim(d) ==
    LET Go(links) ==
            IF links = <<>> THEN [some |-> FALSE, target |-> <<>>]
            ELSE LET href == Attr(d.val[Head(links)], "href")
                 IN  [some |-> TRUE,
                      target |-> StripPrefixOr(
                                    IF href.some THEN href.value ELSE <<>>,
                                    <<".", "/">>)]
    IN  With(Select(d, "REDIRECT"), Go)

\* detect_redirect: the first redirect link's href, trimmed, without a
\* leading "./"; a link without href gives the empty text.
detect_redirect(d) ==
    LET Go(links) ==
            IF links = <<>> THEN [some |-> FALSE, target |-> <<>>]
            ELSE LET href == Attr(d.val[Head(links)], "href")
                 IN  [some |-> TRUE,
                      target |-> StripPrefixOr(
                                    Trim(IF href.some THEN href.value ELSE <<>>),
                                    <<".", "/">>)]
    IN  With(Select(d, "REDIRECT"), Go)

\* CONFIG.sections_to_remove: the titles to remove, by language.
sections_to_remove ==
    [lang \in {<<"en">>} |-> {<<"References">>, <<"External", " ", "links">>}]

\* The siblings after node n (NodeRef::next_siblings).
NextSiblings(d, n) ==
    LET Go(p) == IF p = NoNode THEN <<>>
                 ELSE SubSeq(d.kids[p], IndexOf(d.kids[p], n) + 1, Len(d.kids[p]))
    IN  With(ParentOf(d, n), Go)

\* A plausible slip: only a header of a higher level ends the removal.
remove_named_header_siblings_HigherOnly(d, titles) ==
    LET Named(h) ==
            LET ts == TextNodes(d, h)
            IN  ts # <<>> /\ d.val[Head(ts)].text \in titles
        Ends(h, n) ==
            /\ IsElement(d, n)
            /\ Matches("HEADERS", d.val[n])
            /\ HeaderLevel(d.val[n].tag) < HeaderLevel(d.val[h].tag)
        Removed(h) ==
            LET Go(sibs) ==
                    {h} \cup {sibs[i] : i \in {j \in 1..Len(sibs) :
                                  \A k \in 1..j : ~Ends(h, sibs[k])}}
            IN  With(NextSiblings(d, h), Go)
    IN  remove_ids(d, UNION {Removed(h) :
                        h \in {x \in Chars(Select(d, "HEADERS")) : Named(x)}})

\* remove_named_header_siblings
remove_named_header_siblings(d, titles) ==
    LET Named(h) ==
            LET ts == TextNodes(d, h)
            IN  ts # <<>> /\ d.val[Head(ts)].text \in titles
        Ends(h, n) ==
            /\ IsElement(d, n)
            /\ Matches("HEADERS", d.val[n])
            /\ HeaderLevel(d.val[n].tag) <= HeaderLevel(d.val[h].tag)
        Removed(h) ==
            LET Go(sibs) ==
                    {h} \cup {sibs[i] : i \in {j \in 1..Len(sibs) :
                                  \A k \in 1..j : ~Ends(h, sibs[k])}}
            IN  With(NextSiblings(d, h), Go)
    IN  remove_ids(d, UNION {Removed(h) :
                        h \in {x \in Chars(Select(d, "HEADERS")) : Named(x)}})

\* A plausible slip: the allow list is not asked.
remove_denylist_elements_NoAllowList(d) ==
    LET Go(root) ==
            IF root = NoNode THEN Panicked(RootElementMissing)
            ELSE Done(remove_ids(d,
                    {n \in Chars(Elements(d, Descendants(d, root))) :
                        Matches("ELEMENT_DENY_LIST", d.val[n])}))
    IN  With(root_element(d), Go)

\* remove_denylist_elements
remove_denylist_elements(d) ==
    LET Go(root) ==
            IF root = NoNode THEN Panicked(RootElementMissing)
            ELSE Done(remove_ids(d,
                    {n \in Chars(Elements(d, Descendants(d, root))) :
                        /\ Matches("ELEMENT_DENY_LIST", d.val[n])
                        /\ ~Matches("ELEMENT_ALLOW_LIST", d.val[n])}))
    IN  With(root_element(d), Go)

\* remove_empty_sections
remove_empty_sections(d) ==
    LET Empty(h) ==
            LET Go(p) ==
                    /\ IsElement(d, p) /\ d.val[p].tag = "section"
                    /\ \A e \in Chars(Elements(d, d.kids[p])) \ {h} :
                          \/ is_empty_or_whitespace(d, e)
                          \/ Matches("HEADERS", d.val[e])
            IN  With(ParentOf(d, h), Go)
    IN  remove_ids(d, {ParentOf(d, h) :
                        h \in {x \in Chars(Select(d, "HEADERS")) : Empty(x)}})

\* expand_empty
expand_empty(d) ==
    LET Go(root) ==
            IF root = NoNode THEN Panicked(RootElementMissing)
            ELSE Done(expand_ids(d,
                    SelectSeq(Elements(d, Descendants(d, root)),
                              LAMBDA n : is_empty_or_whitespace(d, n))))
    IN  With(root_element(d), Go)

\* remove_non_element_nodes
remove_non_element_nodes(d) ==
    remove_ids(d, {n \in Chars(Tail(Descendants(d, Root))) :
                      d.val[n].tag \in {"#comment", "#doctype"}})

\* Attribute names that start with "data-mw".
DataMwNames == {"data-mw", "data-mw-section-id"}

\* The attributes remove_attrs leaves on one element.
StripAttrs(node) ==
    LET span == node.tag = "span"
    IN  [node EXCEPT
           !.cls = IF span THEN {} ELSE @,
           !.attrs = {a \in @ :
                        /\ ~(span /\ a[1] = "style")
                        /\ a[1] \notin DataMwNames
                        /\ a[1] \notin {"id", "prefix", "typeof", "about", "rel"}}]

\* remove_attrs
remove_attrs(d) ==
    LET Go(els) == [d EXCEPT !.val = [n \in Ids(d) |->
                        IF n \in els THEN StripAttrs(d.val[n]) ELSE d.val[n]]]
    IN  With(Chars(Elements(d, Descendants(d, Root))), Go)

\* final_expansions
\* A plausible slip: body and html are left in place.
final_expansions_NoBody(d) ==
    expand_ids(d,
        SelectSeq(Elements(d, Descendants(d, Root)),
                  LAMBDA n :
                     \/ /\ d.val[n].tag = "span"
                        /\ d.val[n].attrs = {} /\ d.val[n].cls = {}
                     \/ d.val[n].tag \in {"a", "section", "div"}))

final_expansions(d) ==
    expand_ids(d,
        SelectSeq(Elements(d, Descendants(d, Root)),
                  LAMBDA n :
                     \/ /\ d.val[n].tag = "span"
                        /\ d.val[n].attrs = {} /\ d.val[n].cls = {}
                     \/ d.val[n].tag \in {"a", "section", "div", "body", "html"}))

\* remove_toplevel_whitespace
remove_toplevel_whitespace(d) ==
    remove_ids(d, {n \in Chars(d.kids[Root]) :
                      /\ d.val[n].tag = "#text"
                      /\ Chars(d.val[n].text) \subseteq WhiteSpace})

\* has_text: the root is the Document node, no element, so the elements
\* among its children are asked.
has_text(d) ==
    \E n \in Chars(Elements(d, d.kids[Root])) : ~is_empty_or_whitespace(d, n)

\* HtmlError and Ok, as process returns them.
HtmlOk == [ok |-> TRUE, err |-> "", msg |-> <<>>]

HtmlErr(e, msg) == [ok |-> FALSE, err |-> e, msg |-> msg]

\* A plausible slip: every payload is taken for one without a message.
PanicMsg_new_NoMessage(payload) == <<>>

\* PanicMsg::new: the message of a &str or String payload, else the empty
\* message.
PanicMsg_new(payload) ==
    IF payload.kind \in {"&str", "String"} THEN payload.msg ELSE <<>>

\* A plausible slip: the panic is not caught and goes on into the caller.
process_caught_Resume(payload) == [pc |-> "unwound", out |-> NotRun]

\* catch_unwind(..).map_err(PanicMsg::new)?: the panic ends in process, which
\* returns HtmlError::Panic.
process_caught(payload) ==
    [pc |-> "done", out |-> HtmlErr("Panic", PanicMsg_new(payload))]

\* simplify: the phases in their order, up to the first that panics.
simplify(d, lang) ==
    LET Rest(o) ==
            IF o.panic THEN o
            ELSE Done(remove_toplevel_whitespace(final_expansions(
                     remove_attrs(remove_non_element_nodes(o.doc)))))
        Emptied(o) ==
            IF o.panic THEN o
            ELSE With(expand_empty(remove_empty_sections(o.doc)), Rest)
    IN  With(remove_denylist_elements(
                 IF lang \in DOMAIN sections_to_remove
                 THEN remove_named_header_siblings(d, sections_to_remove[lang])
                 ELSE d), Emptied)

\* process: what it returns, and the document of an Ok.
process(d, lang) ==
    LET Simplified(o) ==
            IF o.panic
            THEN [out |-> process_caught([kind |-> "String", msg |-> o.msg]).out,
                  doc |-> EmptyTree]
            ELSE IF has_text(o.doc) THEN [out |-> HtmlOk, doc |-> o.doc]
            ELSE [out |-> HtmlErr("NoText", <<>>), doc |-> EmptyTree]
        Detected(r) ==
            IF r.some THEN [out |-> HtmlErr("Redirect", r.target), doc |-> EmptyTree]
            ELSE With(simplify(d, lang), Simplified)
    IN  With(detect_redirect(d), Detected)

----------------------------------------------------------------------------
(* The documents html::process is applied to.                              *)

Redirect == <<"rel", <<"mw:PageProp/redirect">>>>

P(text) == El("p", {}, {}, <<Txt(text)>>)

H(tag, text) == El(tag, {}, {<<"id", text>>}, <<Txt(text)>>)

\* What a document's body is made of.
Blocks ==
    { P(<<"H", "i">>),
      Txt(<<"H", "i">>),
      Txt(<<" ">>),
      El("p", {}, {}, <<>>),
      H("h2", <<"References">>),
      H("h2", <<"History">>),
      H("h3", <<"History">>),
      El("section", {}, {<<"data-mw-section-id", <<"1">>>>},
         <<H("h2", <<"History">>), Txt(<<" ">>)>>),
      El("section", {}, {<<"data-mw-section-id", <<"1">>>>},
         <<H("h2", <<"History">>), P(<<"H", "i">>)>>),
      El("table", {}, {}, <<Txt(<<"T">>)>>),
      El("div", {"excerpt"}, {}, <<P(<<"E", "x">>)>>),
      El("span", {"nowrap"}, {<<"style", <<"x">>>>}, <<Txt(<<"S", "p">>)>>),
      El("a", {}, {<<"rel", <<"mw:WikiLink">>>>, <<"href", <<".", "/", "A">>>>},
         <<Txt(<<"L", "n">>)>>),
      Comment,
      El("link", {}, {Redirect, <<"href", <<".", "/", "A">>>>}, <<>>),
      El("link", {}, {Redirect, <<"href", <<" ", ".", "/", ".", "/", "B", " ">>>>},
         <<>>),
      El("link", {}, {Redirect}, <<>>),
      El("link", {}, {<<"rel", <<"stylesheet">>>>, <<"href", <<".", "/", "A">>>>},
         <<>>),
      El("section", {}, {},
         <<P(<<"H", "i">>), H("h2", <<"References">>), P(<<"R", "1">>),
           H("h3", <<"History">>), Txt(<<"R", "2">>),
           H("h2", <<"History">>), P(<<"K", "p">>)>>),
      El("section", {}, {},
         <<H("h3", <<"External", " ", "links">>), El("ul", {}, {}, <<Txt(<<"L">>)>>),
           H("h2", <<"References">>), P(<<"R", "1">>)>>),
      El("section", {}, {}, <<H("h2", <<"History">>), Txt(<<"H", "i">>)>>),
      El("section", {}, {},
         <<El("p", {}, {}, <<>>), H("h2", <<"History">>), H("h3", <<"History">>)>>),
      El("section", {}, {},
         <<P(<<"H", "i">>), H("h2", <<"History">>), El("p", {}, {}, <<>>)>>),
      El("div", {}, {}, <<El("div", {"excerpt"}, {}, <<P(<<"E", "x">>)>>)>>),
      El("div", {"excerpt-block"}, {},
         <<El("table", {}, {}, <<Txt(<<"T">>)>>), P(<<"E", "x">>)>>),
      El("span", {}, {<<"lang", <<"fr">>>>}, <<Txt(<<"F", "r">>)>>),
      El("p", {}, {},
         <<Txt(<<"H", "i">>),
           El("a", {}, {<<"href", <<".", "/", "A">>>>},
              <<El("span", {"nowrap"}, {}, <<Txt(<<"L", "n">>)>>)>>),
           Txt(<<"E", "n">>)>>) }

\* The bodies: at most MaxBlocks blocks.
Bodies == TextsUpTo(Blocks, MaxBlocks)

\* The classes of the html element.
HtmlClasses == { {}, {"noprint"} }

HtmlLangs == { <<"en">>, <<"de">> }

Documents ==
    { parse_document(<<Doctype, Comment>>, cls, <<>>, body) :
        cls \in HtmlClasses, body \in Bodies }

HtmlInit ==
    /\ QidIdle
    /\ TitleIdle
    /\ WriterIdle
    /\ RunIdle
    /\ MoreIdle
    /\ hIn \in Documents
    /\ hLang \in HtmlLangs
    /\ hDoc = hIn
    /\ hApplied = <<>>
    /\ hPayload = NoPayload
    /\ hOut = NotRun
    /\ hPc = "start"

\* process: detect_redirect; a redirect is returned at once.
HtmlDetectRedirect ==
    /\ hPc = "start"
    /\ LET r == detect_redirect(hDoc)
       IN  IF r.some
           THEN hOut' = HtmlErr("Redirect", r.target) /\ hPc' = "done"
           ELSE hOut' = hOut /\ hPc' = "remove_named_header_siblings"
    /\ UNCHANGED <<hIn, hLang, hDoc, hApplied, hPayload, qidVars, titleVars, writerVars, runVars, moreVars>>

\* One phase of simplify: it leaves the document as outcome says, or it
\* panics, and the unwinding starts with the payload of the panic.
Phase(name, then, outcome) ==
    /\ hPc = name
    /\ IF outcome.panic
       THEN /\ hPayload' \in {[kind |-> k, msg |-> outcome.msg] :
                                k \in {"&str", "String"}}
            /\ hPc' = "unwinding"
            /\ UNCHANGED <<hDoc, hApplied>>
       ELSE /\ hDoc' = outcome.doc
            /\ hApplied' = Append(hApplied, name)
            /\ hPc' = then
            /\ UNCHANGED hPayload
    /\ UNCHANGED <<hIn, hLang, hOut, qidVars, titleVars, writerVars, runVars, moreVars>>

HtmlRemoveNamedHeaderSiblings ==
    Phase("remove_named_header_siblings", "remove_denylist_elements",
          Done(IF hLang \in DOMAIN sections_to_remove
               THEN remove_named_header_siblings(hDoc, sections_to_remove[hLang])
               ELSE hDoc))

HtmlRemoveDenylistElements ==
    Phase("remove_denylist_elements", "remove_empty_sections",
          remove_denylist_elements(hDoc))

HtmlRemoveEmptySections ==
    Phase("remove_empty_sections", "expand_empty",
          Done(remove_empty_sections(hDoc)))

HtmlExpandEmpty ==
    Phase("expand_empty", "remove_non_element_nodes", expand_empty(hDoc))

HtmlRemoveNonElementNodes ==
    Phase("remove_non_element_nodes", "remove_attrs",
          Done(remove_non_element_nodes(hDoc)))

HtmlRemoveAttrs ==
    Phase("remove_attrs", "final_expansions", Done(remove_attrs(hDoc)))

HtmlFinalExpansions ==
    Phase("final_expansions", "remove_toplevel_whitespace",
          Done(final_expansions(hDoc)))

HtmlRemoveToplevelWhitespace ==
    Phase("remove_toplevel_whitespace", "has_text",
          Done(remove_toplevel_whitespace(hDoc)))

\* process: has_text decides between Ok and NoText.
HtmlHasText ==
    /\ hPc = "has_text"
    /\ hOut' = IF has_text(hDoc) THEN HtmlOk ELSE HtmlErr("NoText", <<>>)
    /\ hPc' = "done"
    /\ UNCHANGED <<hIn, hLang, hDoc, hApplied, hPayload, qidVars, titleVars, writerVars, runVars, moreVars>>

\* process: the unwinding reaches catch_unwind.
HtmlCatchUnwind ==
    /\ hPc = "unwinding"
    /\ hOut' = process_caught(hPayload).out
    /\ hPc' = process_caught(hPayload).pc
    /\ UNCHANGED <<hIn, hLang, hDoc, hApplied, hPayload, qidVars, titleVars, writerVars, runVars, moreVars>>

HtmlNext ==
    \/ HtmlDetectRedirect
    \/ HtmlRemoveNamedHeaderSiblings
    \/ HtmlRemoveDenylistElements
    \/ HtmlRemoveEmptySections
    \/ HtmlExpandEmpty
    \/ HtmlRemoveNonElementNodes
    \/ HtmlRemoveAttrs
    \/ HtmlFinalExpansions
    \/ HtmlRemoveToplevelWhitespace
    \/ HtmlHasText
    \/ HtmlCatchUnwind

SpecHtml == HtmlInit /\ [][HtmlNext]_vars

----------------------------------------------------------------------------
(* std::path and std::fs on Linux, as the writer uses them.  A path is the *)
(* sequence of its components from the root directory; the file system     *)
(* maps the paths that exist, free of symlinks and of "..", to what is     *)
(* there.                                                                  *)

\* Path::components of a text: cut at every '/', empty parts and "." left out.
Components(text) ==
    SelectSeq(Segments(text), LAMBDA c : c # <<>> /\ c # <<".">>)

\* PathBuf::push: a text that starts with '/' replaces the path.
Push(path, text) ==
    IF text # <<>> /\ Head(text) = "/" THEN Components(text)
    ELSE path \o Components(text)

\* Path::parent
Parent(path) == SubSeq(path, 1, Len(path) - 1)

\* PathBuf::set_extension: what follows the last '.' of the file name is
\* replaced; a path without a file name is left as it is.
set_extension(path, ext) ==
    IF path = <<>> \/ path[Len(path)] = <<".", ".">> THEN path
    ELSE LET name == path[Len(path)]
             dots == Places(name, ".") \ {1}
             stem == IF dots = {} THEN name
                     ELSE SubSeq(name, 1, (CHOOSE i \in dots : \A j \in dots : j <= i) - 1)
         IN  [path EXCEPT ![Len(path)] = stem \o <<".">> \o ext]

Dir == [kind |-> "dir", target |-> <<>>, data |-> <<>>]

Link(target) == [kind |-> "link", target |-> target, data |-> <<>>]

File(data) == [kind |-> "file", target |-> <<>>, data |-> data]

\* The symlinks one path resolution follows before it fails with ELOOP.
MaxSymlinks == 4

FsFound(at, kind) == [st |-> "found", at |-> at, kind |-> kind]

FsMissing(at) == [st |-> "missing", at |-> at, kind |-> "none"]

FsError(e) == [st |-> "error", at |-> <<>>, kind |-> e]

RECURSIVE Walk(_, _, _, _, _)
\* Path resolution from directory cur along the components rest: what is
\* found, or where the last component is missing, or the error. A symlink
\* is followed, the last component's only when follow is set.
Walk(fs, cur, rest, follow, fuel) ==
    IF rest = <<>> THEN FsFound(cur, fs[cur].kind)
    ELSE LET c == Head(rest)
             more == Tail(rest)
             here == Append(cur, c)
         IN  IF fs[cur].kind # "dir" THEN FsError("NotADirectory")
             ELSE IF c = <<".", ".">> THEN Walk(fs, Parent(cur), more, follow, fuel)
             ELSE IF here \notin DOMAIN fs
             THEN IF more = <<>> THEN FsMissing(here) ELSE FsError("NotFound")
             ELSE IF fs[here].kind = "link" /\ (more # <<>> \/ follow)
             THEN IF fuel = 0 THEN FsError("FilesystemLoop")
                  ELSE Walk(fs, <<>>, fs[here].target \o more, follow, fuel - 1)
             ELSE Walk(fs, here, more, follow, fuel)

\* symlink_metadata
Lstat(fs, path) == Walk(fs, <<>>, path, FALSE, MaxSymlinks)

\* metadata
Stat(fs, path) == Walk(fs, <<>>, path, TRUE, MaxSymlinks)

\* Path::is_symlink
is_symlink(fs, path) ==
    LET Go(m) == m.st = "found" /\ m.kind = "link" IN With(Lstat(fs, path), Go)

\* Path::exists
exists(fs, path) == Stat(fs, path).st = "found"

\* Path::is_dir
is_dir(fs, path) ==
    LET Go(m) == m.st = "found" /\ m.kind = "dir" IN With(Stat(fs, path), Go)

\* The result of a file system call: the file system after it and whether
\* it succeeded.
FsOk(fs) == [ok |-> TRUE, fs |-> fs, err |-> ""]

FsFail(fs, e) == [ok |-> FALSE, fs |-> fs, err |-> e]

\* The file system without the paths of set gone.
Without_paths(fs, gone) == [q \in DOMAIN fs \ gone |-> fs[q]]

\* fs::remove_file (unlink): the last component is not followed.
remove_file(fs, path) ==
    LET Go(m) ==
            IF m.st = "found" /\ m.kind \in {"link", "file"}
            THEN FsOk(Without_paths(fs, {m.at}))
            ELSE FsFail(fs, IF m.st = "found" THEN "IsADirectory"
                            ELSE IF m.st = "missing" THEN "NotFound" ELSE m.kind)
    IN  With(Lstat(fs, path), Go)

\* fs::remove_dir_all: a symlink is unlinked, a directory goes with all
\* that is below it, a file is an error.
remove_dir_all(fs, path) ==
    LET Go(m) ==
            IF m.st = "found" /\ m.kind = "link"
            THEN FsOk(Without_paths(fs, {m.at}))
            ELSE IF m.st = "found" /\ m.kind = "dir"
            THEN FsOk(Without_paths(fs,
                    {q \in DOMAIN fs : Len(q) >= Len(m.at) /\ Len(m.at) > 0
                                        /\ SubSeq(q, 1, Len(m.at)) = m.at}))
            ELSE FsFail(fs, IF m.st = "found" THEN "NotADirectory"
                            ELSE IF m.st = "missing" THEN "NotFound" ELSE m.kind)
    IN  With(Lstat(fs, path), Go)

\* fs::read_link
read_link(fs, path) ==
    LET Go(m) == IF m.st = "found" /\ m.kind = "link"
                 THEN [ok |-> TRUE, target |-> fs[m.at].target]
                 ELSE [ok |-> FALSE, target |-> <<>>]
    IN  With(Lstat(fs, path), Go)

\* mkdir
mkdir(fs, path) ==
    LET Go(m) == IF m.st = "missing" THEN FsOk(fs @@ (m.at :> Dir))
                 ELSE FsFail(fs, IF m.st = "found" THEN "AlreadyExists" ELSE m.kind)
    IN  With(Lstat(fs, path), Go)

RECURSIVE create_dir_from(_, _, _)
\* fs::create_dir_all, from the k-th ancestor on: every ancestor that is no
\* directory yet is made with mkdir.
create_dir_from(fs, path, k) ==
    IF k > Len(path) THEN FsOk(fs)
    ELSE IF is_dir(fs, SubSeq(path, 1, k)) THEN create_dir_from(fs, path, k + 1)
    ELSE LET Go(r) == IF r.ok THEN create_dir_from(r.fs, path, k + 1) ELSE r
         IN  With(mkdir(fs, SubSeq(path, 1, k)), Go)

\* fs::create_dir_all
create_dir_all(fs, path) == create_dir_from(fs, path, 1)

\* std::os::unix::fs::symlink(target, link)
symlink(fs, target, link) ==
    LET Go(m) == IF m.st = "missing" THEN FsOk(fs @@ (m.at :> Link(target)))
                 ELSE FsFail(fs, IF m.st = "found" THEN "AlreadyExists" ELSE m.kind)
    IN  With(Lstat(fs, link), Go)

\* File::create, then write_all: the file is made or overwritten; symlinks
\* are followed.
file_create_write(fs, path, data) ==
    LET Go(m) ==
            IF m.st = "missing" THEN FsOk(fs @@ (m.at :> File(data)))
            ELSE IF m.st = "found" /\ m.kind = "file"
            THEN FsOk([fs EXCEPT ![m.at] = File(data)])
            ELSE FsFail(fs, IF m.st = "found" THEN "IsADirectory" ELSE m.kind)
    IN  With(Stat(fs, path), Go)

----------------------------------------------------------------------------
(* wm/page.rs: Page; Qid::get_dir and Title::get_dir; get_articles.rs: the *)
(* writer.                                                                 *)

\* Option<Wikidata>
NoEntity == [some |-> FALSE, identifier |-> <<>>]

Entity(identifier) == [some |-> TRUE, identifier |-> identifier]

\* Page::wikidata: None without main_entity; the parsed identifier; a panic
\* (unwrap of Err) when the identifier is no QID.
Page_wikidata(page) ==
    IF ~page.main_entity.some
    THEN [panic |-> FALSE, some |-> FALSE, qid |-> U32Zero]
    ELSE LET Go(r) == IF r.ok THEN [panic |-> FALSE, some |-> TRUE, qid |-> r.qid]
                      ELSE [panic |-> TRUE, some |-> FALSE, qid |-> U32Zero]
         IN  With(Qid_from_str(page.main_entity.identifier), Go)

\* Page::title
Page_title(page) == Title_from_title(page.name, page.lang)

\* Page::all_titles: the title, then the redirects, each parsed or not.
Page_all_titles(page) ==
    <<Page_title(page)>>
        \o [i \in 1..Len(page.redirects) |->
               Title_from_title(page.redirects[i], page.lang)]

\* Qid::get_dir
Qid_get_dir(base, qid) == Push(Push(base, <<"wikidata">>), Qid_to_string(qid))

\* Title::get_dir
Title_get_dir(base, title) ==
    Push(Push(Push(base, title.lang \o <<".wikipedia.org">>), <<"wiki">>),
         title.name)

\* A plausible slip: the page's own title is preferred to the first alias.
main_dir_OwnTitleFirst(base, page, redirects) ==
    LET q == Page_wikidata(page)
        t == Page_title(page)
    IN  IF q.some
        THEN [ok |-> TRUE, dir |-> Qid_get_dir(base, q.qid), rest |-> redirects]
        ELSE IF t.ok
        THEN [ok |-> TRUE, dir |-> Title_get_dir(base, t.title), rest |-> redirects]
        ELSE IF redirects # <<>>
        THEN [ok |-> TRUE, dir |-> Title_get_dir(base, Head(redirects)),
              rest |-> Tail(redirects)]
        ELSE [ok |-> FALSE, dir |-> <<>>, rest |-> <<>>]

\* create_article_dir: the main directory, and the titles left to link to
\* it; no directory when the page has no QID and no title can be used.
main_dir(base, page, redirects) ==
    LET q == Page_wikidata(page)
        t == Page_title(page)
    IN  IF q.some
        THEN [ok |-> TRUE, dir |-> Qid_get_dir(base, q.qid), rest |-> redirects]
        ELSE IF redirects # <<>>
        THEN [ok |-> TRUE, dir |-> Title_get_dir(base, Head(redirects)),
              rest |-> Tail(redirects)]
        ELSE IF t.ok
        THEN [ok |-> TRUE, dir |-> Title_get_dir(base, t.title), rest |-> <<>>]
        ELSE [ok |-> FALSE, dir |-> <<>>, rest |-> <<>>]

\* create_article_dir: one title's directory is made a symlink to the main
\* directory.
link_title(fs, main, dir) ==
    LET Linked(r) == IF r.ok THEN symlink(r.fs, main, dir) ELSE r
    IN  IF exists(fs, dir)
        THEN IF is_symlink(fs, dir)
             THEN IF ~read_link(fs, dir).ok THEN FsFail(fs, "InvalidInput")
                  ELSE IF read_link(fs, dir).target = main THEN FsOk(fs)
                  ELSE With(remove_file(fs, dir), Linked)
             ELSE With(remove_dir_all(fs, dir), Linked)
        ELSE With(create_dir_all(fs, Parent(dir)), Linked)

RECURSIVE link_titles(_, _, _, _)
\* create_article_dir: the loop over the titles; the first error ends it.
link_titles(fs, base, main, titles) ==
    IF titles = <<>> THEN FsOk(fs)
    ELSE LET Go(r) == IF r.ok THEN link_titles(r.fs, base, main, Tail(titles))
                      ELSE r
         IN  With(link_title(fs, main, Title_get_dir(base, Head(titles))), Go)

\* The result of create_article_dir: the file system after it and, when it
\* succeeded, the main directory.
create_article_dir(fs, base, page, redirects) ==
    LET Made(m) ==
            LET Linked(r) == [ok |-> r.ok, fs |-> r.fs, err |-> r.err, dir |-> m.dir]
                Created(r) ==
                    IF r.ok THEN With(link_titles(r.fs, base, m.dir, m.rest), Linked)
                    ELSE Linked(r)
                Cleared(r) ==
                    IF r.ok THEN With(create_dir_all(r.fs, m.dir), Created)
                    ELSE Linked(r)
            IN  IF ~m.ok
                THEN [ok |-> FALSE, fs |-> fs, err |-> "No available titles",
                      dir |-> <<>>]
                ELSE With(IF is_symlink(fs, m.dir) THEN remove_file(fs, m.dir)
                          ELSE FsOk(fs), Cleared)
    IN  With(main_dir(base, page, redirects), Made)

\* write: the article's directory, then the file <lang>.html in it.
write(fs, base, page, redirects, html) ==
    LET Go(r) ==
            IF ~r.ok THEN [ok |-> FALSE, fs |-> r.fs, err |-> r.err]
            ELSE file_create_write(r.fs,
                    set_extension(Push(r.dir, page.lang), <<"html">>), html)
    IN  With(create_article_dir(fs, base, page, redirects), Go)

----------------------------------------------------------------------------
(* The pages, titles and file systems write is applied to.                 *)

\* The output directory, args.output_dir: /out.
BaseDir == << <<"out">> >>

\* A file system that holds the output directory alone.
EmptyBase == (<<>> :> Dir) @@ (BaseDir :> Dir)

WikiDir == BaseDir \o << <<"en", ".wikipedia.org">>, <<"wiki">> >>

\* What earlier runs can have left: nothing; an alias B of Q7; an alias B
\* of a page whose directory is gone; a directory of page B with its file;
\* a link where the directory of A goes; a file where the directory of A
\* goes; an alias B of another page, Q1.
WriterTrees ==
    LET wiki == create_dir_all(EmptyBase, WikiDir).fs
        q7   == create_dir_all(wiki, BaseDir \o << <<"wikidata">>, <<"Q", "7">> >>).fs
    IN  { EmptyBase,
          symlink(q7, BaseDir \o << <<"wikidata">>, <<"Q", "7">> >>,
                  WikiDir \o << <<"B">> >>).fs,
          symlink(wiki, BaseDir \o << <<"wikidata">>, <<"Q", "1">> >>,
                  WikiDir \o << <<"B">> >>).fs,
          file_create_write(create_dir_all(wiki, WikiDir \o << <<"B">> >>).fs,
                            WikiDir \o << <<"B">>, <<"en", ".", "html">> >>,
                            <<"old">>).fs,
          symlink(q7, BaseDir \o << <<"wikidata">>, <<"Q", "7">> >>,
                  WikiDir \o << <<"A">> >>).fs,
          file_create_write(wiki, WikiDir \o << <<"A">> >>, <<"old">>).fs,
          symlink(create_dir_all(wiki, BaseDir \o << <<"wikidata">>, <<"Q", "1">> >>).fs,
                  BaseDir \o << <<"wikidata">>, <<"Q", "1">> >>,
                  WikiDir \o << <<"B">> >>).fs }

\* The pages: with a QID or without, with a title that parses or not. The
\* identifier of a page that reaches write has been parsed by the caller.
WriterPages ==
    [name : { <<"A">>, <<"B">>, <<" ">>, <<"A", "/", "B">> },
     lang : { <<"en">> },
     main_entity : { NoEntity, Entity(<<"Q", "7">>), Entity(<<" ", "q", "0", "7">>) },
     redirects : { <<>> }]

\* The titles a page is matched by.
AliasTitles ==
    { [lang |-> <<"en">>, name |-> n] : n \in { <<"A">>, <<"B">>, <<"A", "/", "B">> } }

WriterInit ==
    /\ QidIdle
    /\ TitleIdle
    /\ HtmlIdle
    /\ RunIdle
    /\ MoreIdle
    /\ wPage \in WriterPages
    /\ wRedirects \in TextsUpTo(AliasTitles, MaxAliases)
    /\ wHtml = <<"new">>
    /\ wBefore \in WriterTrees
    /\ wFs = wBefore
    /\ wOut = NotRun
    /\ wPc = "start"

\* write(base, page, redirects, html)
WriterWrite ==
    /\ wPc = "start"
    /\ LET r == write(wFs, BaseDir, wPage, wRedirects, wHtml)
       IN  /\ wFs' = r.fs
           /\ wOut' = [ok |-> r.ok, err |-> r.err]
    /\ wPc' = "done"
    /\ UNCHANGED <<wPage, wRedirects, wHtml, wBefore, qidVars, titleVars, htmlVars, runVars,
                   moreVars>>

\* The same write once more.
WriterRewrite ==
    /\ wPc = "done"
    /\ LET r == write(wFs, BaseDir, wPage, wRedirects, wHtml)
       IN  /\ wFs' = r.fs
           /\ wOut' = [ok |-> r.ok, err |-> r.err]
    /\ wPc' = "again"
    /\ UNCHANGED <<wPage, wRedirects, wHtml, wBefore, qidVars, titleVars, htmlVars, runVars,
                   moreVars>>

WriterNext == WriterWrite \/ WriterRewrite

SpecWriter == WriterInit /\ [][WriterNext]_vars

----------------------------------------------------------------------------
(* get_articles::run: the loop over the records of the dump.               *)

\* Html::html of a processed document, and the text of an article body that
\* parses to a document: one token stands for the whole text.
Html_html(d) == <<[raw |-> FALSE, doc |-> d]>>

article_body(d) == <<[raw |-> TRUE, doc |-> d]>>

\* The article bodies: one that simplifies to text, a redirect, one that
\* makes simplify panic, one without text.
RunBodies ==
    { parse_document(<<Doctype>>, {}, <<>>, <<P(<<"H", "i">>)>>),
      parse_document(<<Doctype>>, {}, <<>>,
                     <<El("link", {}, {Redirect, <<"href", <<".", "/", "A">>>>}, <<>>)>>),
      parse_document(<<Doctype>>, {"noprint"}, <<>>, <<P(<<"H", "i">>)>>),
      parse_document(<<Doctype>>, {}, <<>>, <<Txt(<<" ">>)>>) }

\* The records that deserialize: main_entity absent, a QID, or another text.
RunPages ==
    [name : { <<"A">>, <<"B">>, <<" ">> },
     lang : { <<"en">> },
     main_entity : { NoEntity, Entity(<<"Q", "7">>), Entity(<<"Article_Title">>) },
     redirects : { <<>>, << <<"A">> >> },
     html : RunBodies]

NoPage ==
    [name |-> <<>>, lang |-> <<>>, main_entity |-> NoEntity, redirects |-> <<>>,
     html |-> EmptyTree]

\* Args after the match sets are loaded; output_dir is required unless
\* passthrough is present.
RunArgs ==
    { a \in [wikidata_qids : { {}, {Qid_from_str(<<"Q", "7">>).qid} },
             wikipedia_titles : { {}, {[lang |-> <<"en">>, name |-> <<"A">>]} },
             passthrough : { "None", "Match", "Error", "Panic" },
             write_new_qids : BOOLEAN,
             output_dir : BOOLEAN,
             no_simplify : BOOLEAN] :
        a.output_dir \/ a.passthrough # "None" }

\* What a record can change.
Effects == [fs |-> rFs, log |-> rLog, out |-> rStdout]

Init ==
    /\ QidIdle
    /\ TitleIdle
    /\ HtmlIdle
    /\ WriterIdle
    /\ MoreIdle
    /\ rArgs \in RunArgs
    /\ rPage = NoPage
    /\ rRead = 0
    /\ rFs = EmptyBase
    /\ rLog = <<>>
    /\ rStdout = <<>>
    /\ rPrev = Effects
    /\ rResult = "none"
    /\ rPc = "read"

\* run: the titles of the page that parse and are in wikipedia_titles.
matching_titles(args, page) ==
    IF args.wikipedia_titles = {} THEN <<>>
    ELSE LET all == Page_all_titles(page)
             F[i \in 0..Len(all)] ==
                 IF i = 0 THEN <<>>
                 ELSE IF all[i].ok /\ all[i].title \in args.wikipedia_titles
                 THEN Append(F[i - 1], all[i].title)
                 ELSE F[i - 1]
         IN  F[Len(all)]

\* run: is_wikidata_match
is_wikidata_match(args, q) == q.some /\ q.qid \in args.wikidata_qids

\* read_line and serde_json::from_str: the next record, or the end of the
\* dump, where run returns Ok.
RunRead ==
    /\ rPc = "read"
    /\ \/ /\ rRead < MaxRecords
          /\ rPage' \in RunPages
          /\ rRead' = rRead + 1
          /\ rPrev' = Effects
          /\ rPc' = "page"
       \/ /\ rPc' = "exit"
          /\ UNCHANGED <<rPage, rRead, rPrev>>
    /\ UNCHANGED <<rArgs, rFs, rLog, rStdout, rResult,
                   qidVars, titleVars, htmlVars, writerVars, moreVars>>

\* page.wikidata(), whose unwrap panics out of run; then the decision: an
\* unmatched page is left with continue.
RunDecide ==
    /\ rPc = "page"
    /\ LET Go(q) ==
               IF q.panic THEN "panicked"
               ELSE IF ~is_wikidata_match(rArgs, q)
                       /\ matching_titles(rArgs, rPage) = <<>>
               THEN "read"
               ELSE "matched"
       IN  rPc' = With(Page_wikidata(rPage), Go)
    /\ UNCHANGED <<rArgs, rPage, rRead, rFs, rLog, rStdout, rPrev, rResult,
                   qidVars, titleVars, htmlVars, writerVars, moreVars>>

\* A plausible slip: a page that matched by QID as well is written too.
writes_new_qid_AlsoQidMatch(args, q, titles) ==
    /\ args.write_new_qids
    /\ q.some
    /\ titles # <<>>

\* run: a QID is written to the write_new_qids file when there is such a
\* file, the page has a QID and it matched by title but not by QID.
writes_new_qid(args, q, titles) ==
    /\ args.write_new_qids
    /\ q.some
    /\ ~is_wikidata_match(args, q)
    /\ titles # <<>>

\* format!("{}\n", qid)
new_qid_line(qid) == Qid_to_string(qid) \o <<"\n">>

\* run: what is done with a matched page: the new QID is appended, the
\* record is passed through, the article is processed and, when that gave a
\* text, written; an error of either is logged.
RunMatched ==
    /\ rPc = "matched"
    /\ LET q      == Page_wikidata(rPage)
           titles == matching_titles(rArgs, rPage)
           Written(w) ==
               /\ rFs' = w.fs
               /\ rResult' = IF w.ok THEN "written" ELSE "write_failed"
           Go(art) ==
               /\ rStdout' =
                     rStdout
                     \o (IF rArgs.passthrough = "Match" THEN <<rPage>> ELSE <<>>)
                     \o (IF ~art.out.ok
                            /\ \/ rArgs.passthrough = "Error"
                               \/ rArgs.passthrough = "Panic" /\ art.out.err = "Panic"
                         THEN <<rPage>> ELSE <<>>)
               /\ IF art.out.ok /\ rArgs.output_dir
                  THEN Written(write(rFs, BaseDir, rPage, titles, art.text))
                  ELSE /\ rFs' = rFs
                       /\ rResult' = IF art.out.ok THEN "not_written" ELSE art.out.err
       IN  /\ rLog' = IF writes_new_qid(rArgs, q, titles)
                      THEN rLog \o new_qid_line(q.qid)
                      ELSE rLog
           /\ IF rArgs.no_simplify
              THEN Go([out |-> HtmlOk, text |-> article_body(rPage.html)])
              ELSE LET Made(r) == [out |-> r.out, text |-> Html_html(r.doc)]
                   IN  Go(With(process(rPage.html, rPage.lang), Made))
    /\ rPc' = "read"
    /\ UNCHANGED <<rArgs, rPage, rRead, rPrev, qidVars, titleVars, htmlVars, writerVars,
                   moreVars>>

Next == RunRead \/ RunDecide \/ RunMatched

Spec == Init /\ [][Next]_vars

----------------------------------------------------------------------------
(* create_article_dir by several processes at once: the loop body for one  *)
(* alias path, one file system call at a time.                             *)

Procs == 1..MaxProcs

\* The alias path the writers share, and the canonical directories.
RaceAlias == WikiDir \o << <<"B">> >>

RaceMains ==
    { BaseDir \o << <<"wikidata">>, <<"Q", "7">> >>,
      BaseDir \o << <<"wikidata">>, <<"Q", "1">> >> }

\* The canonical directories exist; the alias path holds nothing, a link to
\* one of them, a link to another directory, or a directory.
RaceTrees ==
    LET Mk(fs, m) == create_dir_all(fs, m).fs
        both == Mk(Mk(Mk(EmptyBase, WikiDir),
                      BaseDir \o << <<"wikidata">>, <<"Q", "7">> >>),
                   BaseDir \o << <<"wikidata">>, <<"Q", "1">> >>)
    IN  { both,
          symlink(both, BaseDir \o << <<"wikidata">>, <<"Q", "7">> >>, RaceAlias).fs,
          symlink(both, WikiDir, RaceAlias).fs,
          Mk(both, RaceAlias) }

RaceInit ==
    /\ QidIdle
    /\ TitleIdle
    /\ HtmlIdle
    /\ WriterIdle
    /\ RunIdle
    /\ AppendIdle
    /\ TagsIdle
    /\ LateIdle
    /\ cFs \in RaceTrees
    /\ cMain \in [Procs -> RaceMains]
    /\ cPc = [p \in Procs |-> "exists"]
    /\ cErr = [p \in Procs |-> ""]

\* One step of writer p: it goes to the place to, or fails with an error;
\* the file system becomes fs.
RaceStep(p, from, to, fs, err) ==
    /\ cPc[p] = from
    /\ cPc' = [cPc EXCEPT ![p] = IF err = "" THEN to ELSE "failed"]
    /\ cErr' = [cErr EXCEPT ![p] = err]
    /\ cFs' = fs
    /\ UNCHANGED <<cMain, qidVars, titleVars, htmlVars, writerVars, runVars,
                   appendVars, tagVars, lateVars>>

\* if wikipedia_dir.exists()
RaceExists ==
    \E p \in Procs :
        RaceStep(p, "exists",
                 IF exists(cFs, RaceAlias) THEN "is_symlink" ELSE "create_dir_all",
                 cFs, "")

\* if wikipedia_dir.is_symlink()
RaceIsSymlink ==
    \E p \in Procs :
        RaceStep(p, "is_symlink",
                 IF is_symlink(cFs, RaceAlias) THEN "read_link" ELSE "remove_dir_all",
                 cFs, "")

\* if fs::read_link(&wikipedia_dir)? == main_dir { continue; }
RaceReadLink ==
    \E p \in Procs :
        LET r == read_link(cFs, RaceAlias)
        IN  RaceStep(p, "read_link",
                     IF r.ok /\ r.target = cMain[p] THEN "done" ELSE "remove_file",
                     cFs, IF r.ok THEN "" ELSE "InvalidInput")

\* fs::remove_file(&wikipedia_dir)?
RaceRemoveFile ==
    \E p \in Procs :
        LET r == remove_file(cFs, RaceAlias)
        IN  RaceStep(p, "remove_file", "symlink", r.fs, r.err)

\* fs::remove_dir_all(&wikipedia_dir)?
RaceRemoveDirAll ==
    \E p \in Procs :
        LET r == remove_dir_all(cFs, RaceAlias)
        IN  RaceStep(p, "remove_dir_all", "symlink", r.fs, r.err)

\* fs::create_dir_all(parent_dir)?
RaceCreateDirAll ==
    \E p \in Procs :
        LET r == create_dir_all(cFs, Parent(RaceAlias))
        IN  RaceStep(p, "create_dir_all", "symlink", r.fs, r.err)

\* unix::fs::symlink(&main_dir, &wikipedia_dir)?
RaceSymlink ==
    \E p \in Procs :
        LET r == symlink(cFs, cMain[p], RaceAlias)
        IN  RaceStep(p, "symlink", "done", r.fs, r.err)

RaceNext ==
    \/ RaceExists
    \/ RaceIsSymlink
    \/ RaceReadLink
    \/ RaceRemoveFile
    \/ RaceRemoveDirAll
    \/ RaceCreateDirAll
    \/ RaceSymlink

SpecRace == RaceInit /\ [][RaceNext]_vars

----------------------------------------------------------------------------
(* run by several processes at once: the appends to one discovery log.     *)

\* A plausible slip: write!(f, "{}\n", qid), which hands the pieces of the
\* line to the file one by one.
new_qid_writes_Unformatted(qid) ==
    << <<"Q">>, Tail(Qid_to_string(qid)), <<"\n">> >>

\* The write calls one append makes on the file: write! of the line that
\* format! has built is a single write of the whole line.
new_qid_writes(qid) == << new_qid_line(qid) >>

\* The QIDs the processes find.
AppendQids == { Qid_from_str(<<"Q", "7">>).qid, Qid_from_str(<<"1", "2">>).qid }

\* The QIDs process p finds, in order: Q7 and Q12 in turn, every other
\* process beginning with Q12; a process finds the first n of them.
AppendFound(p) ==
    { [i \in 1..n |-> Qid_from_str(IF (i + p) % 2 = 0 THEN <<"Q", "7">>
                                   ELSE <<"1", "2">>).qid] : n \in 0..MaxAppends }

AppendInit ==
    /\ QidIdle
    /\ TitleIdle
    /\ HtmlIdle
    /\ WriterIdle
    /\ RunIdle
    /\ RaceIdle
    /\ TagsIdle
    /\ LateIdle
    /\ aTodo \in { t \in [Procs -> [given : UNION {AppendFound(p) : p \in Procs},
                                     begun : {0}]] :
                      \A p \in Procs : t[p].given \in AppendFound(p) }
    /\ aPending = [p \in Procs |-> <<>>]
    /\ aFile = <<>>

\* A process comes to its next title-only match: the writes for its line.
AppendBegin ==
    \E p \in Procs :
        /\ aPending[p] = <<>>
        /\ aTodo[p].begun < Len(aTodo[p].given)
        /\ aTodo' = [aTodo EXCEPT ![p].begun = @ + 1]
        /\ aPending' = [aPending EXCEPT
                          ![p] = new_qid_writes(aTodo[p].given[aTodo[p].begun + 1])]
        /\ UNCHANGED <<aFile, qidVars, titleVars, htmlVars, writerVars, runVars,
                       raceVars, tagVars, lateVars>>

\* One write on the file opened with append(true): the bytes go to the end
\* of the file as it is at the time of the call.
AppendWrite ==
    \E p \in Procs :
        /\ aPending[p] # <<>>
        /\ aFile' = aFile \o Head(aPending[p])
        /\ aPending' = [aPending EXCEPT ![p] = Tail(@)]
        /\ UNCHANGED <<aTodo, qidVars, titleVars, htmlVars, writerVars, runVars,
                       raceVars, tagVars, lateVars>>

AppendNext == AppendBegin \/ AppendWrite

SpecAppend == AppendInit /\ [][AppendNext]_vars

----------------------------------------------------------------------------
(* tag_file.rs: parse_osm_tag_file reads a tab-separated file of OSM tags.  *)
(* The file is a sequence of lines; a line is its cells and whether its     *)
(* bytes are UTF-8; a line without cells is a blank line.  Cells hold no    *)
(* quotes, so a record never spans lines.  The read that would deliver line *)
(* `io` fails (0: no read fails; one more than the number of lines: the     *)
(* read that would find the end of the file fails).                        *)

MaxRows == 2

Wikidata == <<"wikidata">>

Wikipedia == <<"wikipedia">>

TagCells ==
    { <<" ">>, <<" ", "Q", "7">>, <<"x">>, <<"en", ":", "A">> }

\* A line of the file.
Line(cells, utf8) == [cells |-> cells, utf8 |-> utf8]

BlankLine == Line(<<>>, TRUE)

TagHeaders ==
    { Line(<<Wikidata, Wikipedia>>, TRUE),
      Line(<<Wikipedia, Wikidata>>, TRUE),
      Line(<<Wikidata, <<"name">>>>, TRUE),
      Line(<<<<"name">>, Wikipedia>>, TRUE),
      Line(<<Wikidata, Wikipedia, <<"?">>>>, FALSE) }

\* Data lines: two cells, two empty cells, two cells with bytes that are not
\* UTF-8, one cell, and the blank line.
TagRows ==
    { Line(<<a, b>>, TRUE) : a \in TagCells, b \in TagCells }
      \cup { Line(<<<<>>, <<>>>>, TRUE),
             Line(<<<<"Q", "7">>, <<"?">>>>, FALSE),
             Line(<<<<"Q", "7">>>>, TRUE),
             BlankLine }

TagLines ==
    {<<>>} \cup { <<h>> \o rows : h \in TagHeaders,
                                  rows \in TextsUpTo(TagRows, MaxRows) }

\* A file whose last line has no line feed is read without a failure.
TagFiles ==
    UNION { [lines : {l}, terminated : {TRUE}, io : 0..(Len(l) + 1)]
              \cup [lines : {l}, terminated : {FALSE}, io : {0}] :
              l \in TagLines }

\* csv::Reader::position().line(): one more than the line feeds consumed.
\* The last line's line feed is missing in a file that is not terminated.
csv_position_line(file, consumed) ==
    IF consumed = Len(file.lines) /\ consumed > 0 /\ ~file.terminated
    THEN consumed
    ELSE consumed + 1

\* csv_core: line terminators before a record are skipped.  The number of
\* lines consumed once the blank lines after `consumed` are passed.
RECURSIVE csv_skip_blank(_, _)
csv_skip_blank(file, consumed) ==
    IF consumed < Len(file.lines) /\ file.lines[consumed + 1] = BlankLine
    THEN csv_skip_blank(file, consumed + 1)
    ELSE consumed

\* csv::Reader::read_record into a StringRecord, with `fields` the number of
\* fields of the first record (0 while the first record is being read):
\* flexible is off, so a record of another length is an error, found before
\* the conversion to UTF-8.  The record's line feed is consumed with it.
csv_read_record(file, consumed, fields) ==
    LET skipped == csv_skip_blank(file, consumed)
    IN  IF file.io \in (consumed + 1)..(skipped + 1)
        THEN [res |-> "io", next |-> file.io - 1, row |-> BlankLine]
        ELSE IF skipped = Len(file.lines)
        THEN [res |-> "end", next |-> skipped, row |-> BlankLine]
        ELSE LET row == file.lines[skipped + 1]
             IN  IF fields # 0 /\ Len(row.cells) # fields
                 THEN [res |-> "UnequalLengths", next |-> skipped + 1, row |-> row]
                 ELSE IF ~row.utf8
                 THEN [res |-> "Utf8", next |-> skipped + 1, row |-> row]
                 ELSE [res |-> "record", next |-> skipped + 1, row |-> row]

\* A plausible slip: every error of the reader counts as an I/O error.
is_io_error_Any(res) == res \in {"io", "UnequalLengths", "Utf8"}

\* csv::Error::is_io_error
is_io_error(res) == res = "io"

\* The header loop: the last column with the name, if any.
column_of(headers, name) ==
    LET at == { i \in 1..Len(headers) : headers[i] = name }
    IN  IF at = {} THEN [some |-> FALSE, col |-> 0]
        ELSE [some |-> TRUE, col |-> CHOOSE i \in at : \A j \in at : j <= i]

ParseLineError(kind, text, line) == [kind |-> kind, text |-> text, line |-> line]

TagsOk == [ok |-> TRUE, err |-> ""]

TagsErr(e) == [ok |-> FALSE, err |-> e]

\* What the QID cell hands to the sinks.
qid_cell(qid, line) ==
    LET Parsed(q) ==
            IF q.ok THEN [qids |-> <<q.qid>>, errors |-> <<>>]
            ELSE [qids |-> <<>>, errors |-> <<ParseLineError("Qid", qid, line)>>]
    IN  IF qid = <<>> THEN [qids |-> <<>>, errors |-> <<>>]
        ELSE With(Qid_from_str(qid), Parsed)

\* What the title cell hands to the sinks.
title_cell(title, line) ==
    LET Parsed(t) ==
            IF t.ok THEN [titles |-> <<t.title>>, errors |-> <<>>]
            ELSE [titles |-> <<>>,
                  errors |-> <<ParseLineError("Title", title, line)>>]
    IN  IF title = <<>> THEN [titles |-> <<>>, errors |-> <<>>]
        ELSE With(Title_from_osm_tag(title), Parsed)

\* A plausible slip: a row whose QID fails is given up, as a malformed row is.
tag_cells_SkipAfterError(row, qid_col, title_col, line) ==
    LET Both(q) ==
            IF q.errors # <<>>
            THEN [qids |-> <<>>, titles |-> <<>>, errors |-> q.errors]
            ELSE LET Cells(t) ==
                         [qids |-> q.qids, titles |-> t.titles,
                          errors |-> t.errors]
                 IN  With(title_cell(Trim(row[title_col]), line), Cells)
    IN  With(qid_cell(Trim(row[qid_col]), line), Both)

\* The body of the loop for a row that was read: what is handed to the three
\* sinks, in order.
tag_cells(row, qid_col, title_col, line) ==
    LET Both(q) ==
            LET Cells(t) ==
                    [qids |-> q.qids, titles |-> t.titles,
                     errors |-> q.errors \o t.errors]
            IN  With(title_cell(Trim(row[title_col]), line), Cells)
    IN  With(qid_cell(Trim(row[qid_col]), line), Both)

TagsInit ==
    /\ QidIdle
    /\ TitleIdle
    /\ HtmlIdle
    /\ WriterIdle
    /\ RunIdle
    /\ RaceIdle
    /\ AppendIdle
    /\ LateIdle
    /\ gFile \in TagFiles
    /\ gNext = 0
    /\ gQids = <<>>
    /\ gTitles = <<>>
    /\ gErrors = <<>>
    /\ gOut = NotRun
    /\ gPc = "headers"

\* The headers the reader holds once the first record was read.
tag_headers(file) ==
    IF file.lines = <<>> THEN <<>> ELSE file.lines[1].cells

\* rdr.headers()? and the two ok_or_else(..)?
TagsHeaders ==
    /\ gPc = "headers"
    /\ LET h == csv_read_record(gFile, 0, 0)
           qid_col == column_of(tag_headers(gFile), Wikidata)
           title_col == column_of(tag_headers(gFile), Wikipedia)
           err == IF h.res \in {"io", "Utf8"} THEN h.res
                  ELSE IF ~qid_col.some THEN "NoWikidataColumn"
                  ELSE IF ~title_col.some THEN "NoWikipediaColumn"
                  ELSE ""
       IN  /\ gNext' = h.next
           /\ IF err # ""
              THEN gOut' = TagsErr(err) /\ gPc' = "done"
              ELSE gOut' = gOut /\ gPc' = "rows"
    /\ UNCHANGED <<gFile, gQids, gTitles, gErrors, qidVars, titleVars, htmlVars,
                   writerVars, runVars, raceVars, appendVars,
                   lateVars>>

\* One turn of the loop: read_record and what follows it.
TagsRow ==
    /\ gPc = "rows"
    /\ LET headers == tag_headers(gFile)
           r == csv_read_record(gFile, gNext, Len(headers))
           line == csv_position_line(gFile, r.next)
       IN  /\ gNext' = r.next
           /\ \/ /\ r.res = "end"
                 /\ gOut' = TagsOk
                 /\ gPc' = "done"
                 /\ UNCHANGED <<gQids, gTitles, gErrors>>
              \/ /\ r.res \notin {"end", "record"}
                 /\ is_io_error(r.res)
                 /\ gOut' = TagsErr(r.res)
                 /\ gPc' = "done"
                 /\ UNCHANGED <<gQids, gTitles, gErrors>>
              \/ /\ r.res \notin {"end", "record"}
                 /\ ~is_io_error(r.res)
                 /\ gErrors' = Append(gErrors, ParseLineError("Tsv", <<>>, line))
                 /\ UNCHANGED <<gQids, gTitles, gOut, gPc>>
              \/ /\ r.res = "record"
                 /\ \E out \in { tag_cells(r.row.cells,
                                            column_of(headers, Wikidata).col,
                                            column_of(headers, Wikipedia).col,
                                            line) } :
                        /\ gQids' = gQids \o out.qids
                        /\ gTitles' = gTitles \o out.titles
                        /\ gErrors' = gErrors \o out.errors
                 /\ UNCHANGED <<gOut, gPc>>
    /\ UNCHANGED <<gFile, qidVars, titleVars, htmlVars, writerVars, runVars,
                   raceVars, appendVars, lateVars>>

TagsNext == TagsHeaders \/ TagsRow

SpecTags == TagsInit /\ [][TagsNext]_vars

----------------------------------------------------------------------------
(* get_tags.rs: run decodes the blobs of a pbf file on the workers of the  *)
(* thread pool, which send a record for every element with a tag of        *)
(* interest over a bounded channel to the writer thread.                   *)

\* The blobs of the longest file.
MaxBlobs == 2

\* The workers of the thread pool.
MaxWorkers == 2

\* The capacity of the channel in the model (the program's is 128).
MaxChannel == 1

Workers == 1..MaxWorkers

RECURSIVE IntToString(_)
\* Display of an integer: decimal, '-' before a negative one.
IntToString(n) ==
    IF n < 0 THEN <<"-">> \o IntToString(0 - n)
    ELSE IF n < 10 THEN <<Digits[n + 1]>>
    ELSE Append(IntToString(n \div 10), Digits[(n % 10) + 1])

\* osm::Kind::otype
Kind_otype(kind) ==
    CASE kind = "Node" -> 0
      [] kind = "Way" -> 1
      [] kind = "Relation" -> 2

NoVersion == [some |-> FALSE, v |-> 0]

Version(v) == [some |-> TRUE, v |-> v]

\* An element of a block: its variant, id, version and tags, a tag being a
\* key and a value.  The keys of an element are distinct.
Element(el, id, version, tags) ==
    [el |-> el, id |-> id, version |-> version, tags |-> tags]

PbfElements ==
    { Element("Node", 1, Version(3), << <<"wikidata", <<" ", "Q", "7">>>> >>),
      Element("DenseNode", 2, NoVersion, << <<"name", <<"x">>>> >>),
      Element("Way", 0 - 3, Version(1),
              << <<"wikipedia", <<"en", ":", "A", " ">>>>, <<"wikidata", <<>>>> >>),
      Element("Relation", 12, Version(2),
              << <<"wikidata", <<" ">>>>, <<"name", <<"x">>>> >>),
      Element("Relation", 5, Version(1),
              << <<"wikidata", <<"Q", "7">>>>, <<"wikipedia", <<"en", ":", "A">>>> >>) }

NodeIn(id) == CHOOSE e \in PbfElements : e.id = id

\* A blob: the header blob of the file, or a block of elements.
HeaderBlob == [kind |-> "OsmHeader", elements |-> <<>>]

DataBlob(elements) == [kind |-> "OsmData", elements |-> elements]

PbfBlobs ==
    { HeaderBlob,
      DataBlob(<<>>),
      DataBlob(<<NodeIn(2)>>),
      DataBlob(<<NodeIn(1), NodeIn(12)>>),
      DataBlob(<<NodeIn(0 - 3), NodeIn(2), NodeIn(5)>>) }

PbfFiles == TextsUpTo(PbfBlobs, MaxBlobs)

Record(id, kind, version, wikidata, wikipedia) ==
    [id |-> id, kind |-> kind, version |-> version,
     wikidata |-> wikidata, wikipedia |-> wikipedia]

NoRecord == [some |-> FALSE]

RECURSIVE tag_value(_, _, _)
\* The loop of make_record for one key: the trimmed value of the last tag
\* with the key, the empty text if there is none.
tag_value(tags, key, found) ==
    IF tags = <<>> THEN found
    ELSE tag_value(Tail(tags), key,
                   IF Head(tags)[1] = key THEN Trim(Head(tags)[2]) ELSE found)

\* A plausible slip: a record is made only of an element with both tags.
make_record_BothTags(kind, id, version, tags) ==
    LET wikipedia == tag_value(tags, "wikipedia", <<>>)
        wikidata == tag_value(tags, "wikidata", <<>>)
    IN  IF wikidata = <<>> \/ wikipedia = <<>> THEN NoRecord
        ELSE [some |-> TRUE,
              record |-> Record(id, kind, version, wikidata, wikipedia)]

\* make_record
make_record(kind, id, version, tags) ==
    LET wikipedia == tag_value(tags, "wikipedia", <<>>)
        wikidata == tag_value(tags, "wikidata", <<>>)
    IN  IF wikidata = <<>> /\ wikipedia = <<>> THEN NoRecord
        ELSE [some |-> TRUE,
              record |-> Record(id, kind, version, wikidata, wikipedia)]

\* extract_tags
extract_tags(e) ==
    CASE e.el = "Node" -> make_record("Node", e.id, e.version, e.tags)
      [] e.el = "DenseNode" -> make_record("Node", e.id, e.version, e.tags)
      [] e.el = "Way" -> make_record("Way", e.id, e.version, e.tags)
      [] e.el = "Relation" -> make_record("Relation", e.id, e.version, e.tags)

RECURSIVE filter_map_extract_tags(_)
\* block.elements().filter_map(extract_tags)
filter_map_extract_tags(elements) ==
    IF elements = <<>> THEN <<>>
    ELSE LET Go(r) == (IF r.some THEN <<r.record>> ELSE <<>>)
                      \o filter_map_extract_tags(Tail(elements))
         IN  With(extract_tags(Head(elements)), Go)

\* The records of a blob: a blob that is not OsmData has none.
blob_records(blob) ==
    IF blob.kind = "OsmData" THEN filter_map_extract_tags(blob.elements)
    ELSE <<>>

PbfHeaderRow ==
    << <<"@id">>, <<"@otype">>, <<"@version">>, <<"wikidata">>, <<"wikipedia">> >>

\* The cells of the row write makes of a record.
record_row(r) ==
    << IntToString(r.id),
       IntToString(Kind_otype(r.kind)),
       IF r.version.some THEN IntToString(r.version.v) ELSE <<>>,
       r.wikidata,
       r.wikipedia >>

PbfInit ==
    /\ QidIdle
    /\ TitleIdle
    /\ HtmlIdle
    /\ WriterIdle
    /\ RunIdle
    /\ RaceIdle
    /\ AppendIdle
    /\ TagsIdle
    /\ TreeIdle
    /\ ExpandIdle
    /\ pFile \in PbfFiles
    /\ pBlobs = pFile
    /\ pWork = [w \in Workers |-> <<>>]
    /\ pChan = <<>>
    /\ pSender = TRUE
    /\ pRows = <<>>
    /\ pCount = 0
    /\ pPc = "start"

PbfOthers ==
    <<qidVars, titleVars, htmlVars, writerVars, runVars, raceVars, appendVars,
      tagVars, treeVars, expandVars>>

\* par_bridge: a worker that has sent the records of its blob takes the next
\* blob of the reader and decodes it.
PbfTake(w) ==
    /\ pSender
    /\ pWork[w] = <<>>
    /\ pBlobs # <<>>
    /\ pWork' = [pWork EXCEPT ![w] = blob_records(Head(pBlobs))]
    /\ pBlobs' = Tail(pBlobs)
    /\ UNCHANGED <<pFile, pChan, pSender, pRows, pCount, pPc, PbfOthers>>

\* send.send(record): blocks while the channel is full.
PbfSend(w) ==
    /\ pWork[w] # <<>>
    /\ Len(pChan) < MaxChannel
    /\ pChan' = Append(pChan, Head(pWork[w]))
    /\ pWork' = [pWork EXCEPT ![w] = Tail(@)]
    /\ UNCHANGED <<pFile, pBlobs, pSender, pRows, pCount, pPc, PbfOthers>>

\* try_for_each returns once the reader is at its end and every worker is
\* through its blob; the closure, and the sender in it, is dropped.
PbfFinish ==
    /\ pSender
    /\ pBlobs = <<>>
    /\ \A w \in Workers : pWork[w] = <<>>
    /\ pSender' = FALSE
    /\ UNCHANGED <<pFile, pBlobs, pWork, pChan, pRows, pCount, pPc, PbfOthers>>

\* write: the header record.
PbfWriteHeader ==
    /\ pPc = "start"
    /\ pRows' = <<PbfHeaderRow>>
    /\ pPc' = "rows"
    /\ UNCHANGED <<pFile, pBlobs, pWork, pChan, pSender, pCount, PbfOthers>>

\* write: one turn of the loop over the receiver.
PbfWriteRow ==
    /\ pPc = "rows"
    /\ pChan # <<>>
    /\ pRows' = Append(pRows, record_row(Head(pChan)))
    /\ pCount' = pCount + 1
    /\ pChan' = Tail(pChan)
    /\ UNCHANGED <<pFile, pBlobs, pWork, pSender, pPc, PbfOthers>>

\* write: the receiver's iterator ends when the channel is empty and the
\* sender is gone; write returns its count.
PbfWriteEnd ==
    /\ pPc = "rows"
    /\ pChan = <<>>
    /\ ~pSender
    /\ pPc' = "done"
    /\ UNCHANGED <<pFile, pBlobs, pWork, pChan, pSender, pRows, pCount, PbfOthers>>

PbfNext ==
    \/ \E w \in Workers : PbfTake(w)
    \/ \E w \in Workers : PbfSend(w)
    \/ PbfFinish
    \/ PbfWriteHeader
    \/ PbfWriteRow
    \/ PbfWriteEnd

\* The threads of the pool and the writer thread are scheduled by the
\* operating system: a step that stays possible is taken.
SpecPbf == PbfInit /\ [][PbfNext]_vars /\ WF_vars(PbfNext)

----------------------------------------------------------------------------
(* C7: what Qid::from_str accepts, stated on the text alone.               *)

\* The text after trimming and dropping one leading 'Q' or one leading 'q'.
QidBodyOf(s) ==
    LET t == Trim(s)
    IN  IF StartsWith(t, <<"Q">>) \/ StartsWith(t, <<"q">>) THEN Tail(t) ELSE t

\* A non-empty run of decimal digits.
IsDigitText(t) == t # <<>> /\ \A i \in 1..Len(t) : t[i] \in DigitChars

RECURSIVE StripZeros(_)
\* The digits without leading zeros ("0" for zero).
StripZeros(t) ==
    IF Len(t) > 1 /\ Head(t) = "0" THEN StripZeros(Tail(t)) ELSE t

\* The decimal digits of 4294967295 = 2^32 - 1.
U32MaxText == <<"4", "2", "9", "4", "9", "6", "7", "2", "9", "5">>

\* a <= b for digit texts of the same length without leading zeros.
DigitsLeq(a, b) ==
    \/ a = b
    \/ \E i \in 1..Len(a) :
          /\ \A j \in 1..(i - 1) : a[j] = b[j]
          /\ DigitVal(a[i]) < DigitVal(b[i])

\* The digit text t denotes an integer no greater than 2^32 - 1.
AtMostU32Max(t) ==
    LET c == StripZeros(t)
    IN  \/ Len(c) < Len(U32MaxText)
        \/ Len(c) = Len(U32MaxText) /\ DigitsLeq(c, U32MaxText)

\* The claim's reading: digits only.
C7_Accepts(s) == IsDigitText(QidBodyOf(s)) /\ AtMostU32Max(QidBodyOf(s))

\* The digits of the body with one optional leading '+' dropped.
QidDigitsOf(s) == StripPrefixOr(QidBodyOf(s), <<"+">>)

\* The amended reading: digits, optionally preceded by one '+'.
C7_AcceptsSigned(s) == IsDigitText(QidDigitsOf(s)) /\ AtMostU32Max(QidDigitsOf(s))

\* C7 as stated: Qid::from_str succeeds exactly when the text, trimmed and
\* with one optional leading Q/q dropped, is a run of decimal digits denoting
\* an integer of at most 2^32 - 1; two accepted texts give equal Qids exactly
\* when the integers are equal.
C7_AsStated ==
    qidPc # "start" =>
        /\ qidOut.ok <=> C7_Accepts(qidIn)
        /\ qidOut2.ok <=> C7_Accepts(qidIn2)
        /\ (qidOut.ok /\ qidOut2.ok) =>
              ((qidOut.qid = qidOut2.qid)
                  <=> (StripZeros(QidBodyOf(qidIn)) = StripZeros(QidBodyOf(qidIn2))))

\* C7 amended: Qid::from_str succeeds exactly when the text, trimmed and with
\* one optional leading Q/q dropped, is a non-empty run of decimal digits,
\* optionally preceded by a single '+', denoting an integer of at most
\* 2^32 - 1; two accepted texts give equal Qids exactly when those integers
\* are equal, the Qid displays as Q followed by the integer without leading
\* zeros, and "", "Q", "Article_Title" and any larger number fail.
C7_QidFromStr ==
    qidPc # "start" =>
        /\ qidOut.ok <=> C7_AcceptsSigned(qidIn)
        /\ qidOut2.ok <=> C7_AcceptsSigned(qidIn2)
        /\ (qidOut.ok /\ qidOut2.ok) =>
              ((qidOut.qid = qidOut2.qid)
                  <=> (StripZeros(QidDigitsOf(qidIn)) = StripZeros(QidDigitsOf(qidIn2))))
        /\ qidIn \in { <<>>, <<"Q">>,
                       <<"A", "r", "t", "i", "c", "l", "e", "_", "T", "i", "t", "l", "e">>,
                       <<"4", "2", "9", "4", "9", "6", "7", "2", "9", "6">> }
              => ~qidOut.ok
        /\ qidPc = "shown" =>
              qidShown = <<"Q">> \o StripZeros(QidDigitsOf(qidIn))

\* " q12345 " and "Q12345" have both been parsed, to equal Qids.
C7_Witness ==
    /\ qidPc = "parsed"
    /\ qidIn = <<" ", "q", "1", "2", "3", "4", "5", " ">>
    /\ qidIn2 = <<"Q", "1", "2", "3", "4", "5">>
    /\ qidOut.ok /\ qidOut2.ok
    /\ qidOut.qid = qidOut2.qid

----------------------------------------------------------------------------
(* C6: the three constructors agree on the same article.                   *)

IsLangCode(lang) ==
    LET l == Trim(lang)
    IN  /\ l # <<>>
        /\ \A i \in 1..Len(l) : l[i] \in AlphaWords /\ Lower(l[i]) = l[i]

\* No '/'-separated part of the title is "." or "..".
NoDotSegment(title) ==
    LET segs == Segments(Trim(title))
    IN  \A i \in 1..Len(segs) : segs[i] \notin {<<".">>, <<".", ".">>}

\* The tag <lang>:<title> is read as a language and a title: the language
\* holds no ':' and is not a URL scheme, and the title is no URL.
IsPlainTag(title, lang) ==
    /\ Places(lang, ":") = {}
    /\ Trim(lang) \notin {<<"http">>, <<"https">>}
    /\ ~StartsWith(TrimStart(title), <<"http", ":", "/", "/">>)
    /\ ~StartsWith(TrimStart(title), <<"https", ":", "/", "/">>)

----------------------------------------------------------------------------
(* C8: the URLs Title::from_url accepts.                                   *)

\* The host is <lang>.wikipedia.org or <lang>.m.wikipedia.org.
C8_HostShape(host) ==
    \E n \in 1..Len(host) :
        /\ n >= 1
        /\ Places(SubSeq(host, 1, n), ".") = {}
        /\ LowerText(SubSeq(host, n + 1, Len(host)))
              \in { <<".", "wikipedia", ".", "org">>,
                    <<".", "m", ".", "wikipedia", ".", "org">> }

\* The path of the URL as written: Title::from_url trims the URL, so a path
\* that ends the URL ends at its last character that is no whitespace.
C8_PathOf(u) == IF u.tail = <<>> THEN TrimEnd(u.path) ELSE u.path

\* What follows /wiki/ in the URL's path (dot segments resolved), or the
\* empty text when the path does not begin with /wiki/.
C8_AfterWiki(path) ==
    LET p == UrlPath(path)
    IN  IF StartsWith(p, <<"/", "wiki", "/">>) THEN SubSeq(p, 4, Len(p)) ELSE <<>>

\* The path is /wiki/ followed by a non-empty title.
C8_PathShape(path) ==
    /\ StartsWith(UrlPath(path), <<"/", "wiki", "/">>)
    /\ UrlDecode(C8_AfterWiki(path)).ok
    /\ Trim(UrlDecode(C8_AfterWiki(path)).text) # <<>>

----------------------------------------------------------------------------
(* C9: the invariant of a Title.                                           *)

\* Lang and name are non-empty, neither begins or ends with whitespace, and
\* the name holds no space.
C9_WellFormed(t) ==
    /\ t.lang # <<>> /\ t.name # <<>>
    /\ Trim(t.lang) = t.lang /\ Trim(t.name) = t.name
    /\ Places(t.name, " ") = {}

\* C9: every Title a constructor returns has a non-empty lang and a
\* non-empty name, neither with leading or trailing whitespace, and a name
\* without a space; a title or lang that is empty after trimming is rejected
\* (in a tag that wraps a URL the title and the lang are the URL's).
C9_TitleInvariant ==
    /\ \A r \in {tOut.main, tOut.alt, tOut.tag} : r.ok => C9_WellFormed(r.title)
    /\ (tPc \in {"made", "round"} /\ tIn.kind = "pair"
          /\ (Trim(tIn.title) = <<>> \/ Trim(tIn.lang) = <<>>))
          => ~tOut.main.ok
    /\ (tPc = "round" /\ tIn.kind = "pair"
          /\ (Trim(tIn.title) = <<>> \/ Trim(tIn.lang) = <<>>))
          => /\ ~tOut.alt.ok
             /\ IsPlainTag(tIn.title, tIn.lang) => ~tOut.tag.ok
    /\ (tPc = "made" /\ tIn.kind = "tag" /\ Places(tIn.tag, ":") # {}
          /\ (Trim(SplitOnce(tIn.tag, ":").before) = <<>>
                \/ Trim(SplitOnce(tIn.tag, ":").after) = <<>>))
          => ~tOut.main.ok

\* " A A" in " en " has been made into en:A_A by from_title, and the tag
\* " en : A A" by from_osm_tag.
C9_Witness ==
    /\ tPc = "round"
    /\ tIn.kind = "pair"
    /\ tIn.title = <<" ", "A", " ">>
    /\ tIn.lang = <<" ", "en", " ">>
    /\ tOut.main.ok /\ tOut.tag.ok
    /\ tOut.main.title = [lang |-> <<"en">>, name |-> <<"A">>]

----------------------------------------------------------------------------
(* C3: a panic during simplify ends in process.                            *)

\* C3: a panic raised while a document is being simplified is caught inside
\* html::process: it never unwinds into the caller, and once the unwinding
\* is over process has returned HtmlError::Panic carrying the message of the
\* panic; HtmlError::Panic is returned for no other reason.
C3_PanicCaught ==
    /\ hPc # "unwound"
    /\ (hPayload # NoPayload /\ hPc # "unwinding")
          => (hPc = "done" /\ hOut = HtmlErr("Panic", hPayload.msg))
    /\ (hPayload # NoPayload) => hPayload.msg # <<>>
    /\ (hOut.err = "Panic") => hPayload # NoPayload

\* A document whose html element the deny list removes has made expand_empty
\* panic, and process has returned the panic's message.
C3_Witness ==
    /\ hPc = "done"
    /\ hPayload.kind = "String"
    /\ hApplied = <<"remove_named_header_siblings", "remove_denylist_elements",
                    "remove_empty_sections">>
    /\ hOut = HtmlErr("Panic", RootElementMissing)

----------------------------------------------------------------------------
(* C4: a redirect stub is returned as it is found.                         *)

\* The redirect links of the document, in document order.
C4_Links(d) ==
    SelectSeq(Descendants(d, Root),
              LAMBDA n : d.val[n].tag = "link" /\ Redirect \in d.val[n].attrs)

\* The href of a link, empty when it has none.
C4_Href(node) ==
    LET hs == {a[2] : a \in {b \in node.attrs : b[1] = "href"}}
    IN  IF hs = {} THEN <<>> ELSE CHOOSE h \in hs : TRUE

\* C4: if the document contains a link element with
\* rel="mw:PageProp/redirect", html::process returns
\* HtmlError::Redirect(target), where target is the (first) link's trimmed
\* href with a leading "./" removed, and none of the simplification phases
\* is applied to the document.
C4_Redirect ==
    (hPc # "idle" /\ C4_Links(hIn) # <<>>)
       => LET href == Trim(C4_Href(hIn.val[Head(C4_Links(hIn))]))
          IN  /\ hPc \in {"start", "done"}
              /\ hApplied = <<>>
              /\ hDoc = hIn
              /\ hPayload = NoPayload
              /\ hPc = "done" =>
                    /\ hOut.err = "Redirect"
                    /\ IF StartsWith(href, <<".", "/">>)
                       THEN href = <<".", "/">> \o hOut.msg
                       ELSE href = hOut.msg

\* A redirect link whose href is " ././B " has been found: the target is
\* "./B".
C4_Witness ==
    /\ hPc = "done"
    /\ hOut = HtmlErr("Redirect", <<".", "/", "B">>)
    /\ Len(C4_Links(hIn)) = 2

----------------------------------------------------------------------------
(* C5: Ok and NoText.                                                      *)

\* The document holds a non-whitespace character at or below its root.
C5_HasChar(d) ==
    \E n \in Chars(Descendants(d, Root)) :
        d.val[n].tag = "#text" /\ ~(Chars(d.val[n].text) \subseteq WhiteSpace)

\* C5 as stated: for a non-redirect document (that simplify does not panic
\* on), html::process returns Ok exactly when the simplified document
\* contains a non-whitespace character anywhere at or below its root, text
\* nodes that are direct children of the root included, and NoText exactly
\* when it contains none.
C5_AsStated ==
    (hPc = "done" /\ C4_Links(hIn) = <<>> /\ hPayload = NoPayload)
       => /\ hOut.ok <=> C5_HasChar(hDoc)
          /\ (hOut = HtmlErr("NoText", <<>>)) <=> ~C5_HasChar(hDoc)

\* A document whose only text is left as a child of the root has been
\* returned as NoText.
C5_Witness ==
    /\ hPc = "done"
    /\ hOut = HtmlErr("NoText", <<>>)
    /\ \E n \in Chars(hDoc.kids[Root]) : hDoc.val[n].text = <<"H", "i">>

----------------------------------------------------------------------------
(* C10: the directory an article is written to.                            *)

\* The page's QID: the number its main_entity identifier stands for.
C10_HasQid(page) == page.main_entity.some /\ Qid_from_str(page.main_entity.identifier).ok

\* The canonical directory as stated: base/wikidata/Q<value> for a page with
\* a QID, else the directory of the first alias, else the directory of the
\* page's own title.
C10_Canonical(page, aliases) ==
    IF C10_HasQid(page)
    THEN BaseDir \o << <<"wikidata">>,
                       <<"Q">> \o StripZeros(QidDigitsOf(page.main_entity.identifier)) >>
    ELSE IF aliases # <<>>
    THEN BaseDir \o << Head(aliases).lang \o <<".wikipedia.org">>, <<"wiki">> >>
            \o Components(Head(aliases).name)
    ELSE BaseDir \o << Trim(page.lang) \o <<".wikipedia.org">>, <<"wiki">> >>
            \o Components(Replace(Trim(page.name), " ", "_"))

\* C10: after a write that succeeded the canonical directory (the QID's
\* whenever the page has one, else the first alias's, else the own title's)
\* is a directory and holds <lang>.html with the text written; a page with
\* no QID, no alias and an unparseable own title makes write fail with
\* nothing created.
C10_CanonicalDir ==
    (wPc = "done") =>
       IF ~C10_HasQid(wPage) /\ wRedirects = <<>> /\ ~Page_title(wPage).ok
       THEN ~wOut.ok /\ wFs = wBefore
       ELSE wOut.ok =>
              LET dir == Lstat(wFs, C10_Canonical(wPage, wRedirects))
                  file == Stat(wFs, C10_Canonical(wPage, wRedirects)
                                       \o << wPage.lang \o <<".", "html">> >>)
              IN  /\ dir.st = "found" /\ dir.kind = "dir"
                  /\ file.st = "found" /\ file.kind = "file"
                  /\ file.at = Append(dir.at, wPage.lang \o <<".", "html">>)
                  /\ wFs[file.at].data = wHtml

\* A page without QID, titled B, has been written under its first alias A.
C10_Witness ==
    /\ wPc = "done" /\ wOut.ok
    /\ ~wPage.main_entity.some /\ wPage.name = <<"B">>
    /\ Len(wRedirects) = 2 /\ wRedirects[1].name = <<"A">>
    /\ Lstat(wFs, WikiDir \o << <<"A">> >>).kind = "dir"

----------------------------------------------------------------------------
(* C1, C2: the decision about a record, and what a record can do to the    *)
(* run.                                                                    *)

\* The QID of a page: its main_entity identifier, when that is a QID.
C1_QidIn(args, page) ==
    /\ page.main_entity.some
    /\ Qid_from_str(page.main_entity.identifier).ok
    /\ Qid_from_str(page.main_entity.identifier).qid \in args.wikidata_qids

\* One of the page's titles, its own or a redirect, parses and is in the
\* title match set.
C1_TitleIn(args, page) ==
    \E n \in {page.name} \cup {page.redirects[i] : i \in DOMAIN page.redirects} :
        /\ Title_from_title(n, page.lang).ok
        /\ Title_from_title(n, page.lang).title \in args.wikipedia_titles

\* C1 as stated: a record that deserialized is treated as matched exactly
\* when its QID is in the QID match set or one of its parseable titles is in
\* the title match set, and an unmatched page leaves the files, the
\* discovery log and stdout as they were.
C1_AsStated ==
    [][(rPc = "page") =>
          /\ (rPc' = "matched") <=> (C1_QidIn(rArgs, rPage) \/ C1_TitleIn(rArgs, rPage))
          /\ (rPc' # "matched") => UNCHANGED <<rFs, rLog, rStdout>>]_vars

\* A record whose title is in the title match set has ended the run instead
\* of being treated as matched.
C1_Witness ==
    /\ rPc = "panicked"
    /\ C1_TitleIn(rArgs, rPage)
    /\ Effects = rPrev

\* C2 as stated: once a record has deserialized nothing about it stops the
\* run; the loop goes on to read the next record.
C2_AsStated == rPc # "panicked"

\* The second record of a dump has ended the run with a panic.
C2_Witness ==
    /\ rPc = "panicked"
    /\ rRead = 2
    /\ rPage.main_entity = Entity(<<"Article_Title">>)

----------------------------------------------------------------------------
(* C11, C12: the alias paths after a write, and a second write.            *)

\* The path of an alias title: <lang>.wikipedia.org/wiki/<name> under base.
C11_AliasPath(t) ==
    BaseDir \o << t.lang \o <<".wikipedia.org">>, <<"wiki">> >> \o Components(t.name)

\* The alias titles: the titles given, less the one that is canonical.
C11_Aliases ==
    IF C10_HasQid(wPage) \/ wRedirects = <<>> THEN wRedirects ELSE Tail(wRedirects)

\* What was at a path before the write is one of: nothing, a symlink
\* (whatever its target), a real directory.
C11_Covered(path) ==
    LET was == Lstat(wBefore, path)
    IN  \/ was.st = "missing"
        \/ was.st = "error" /\ was.kind = "NotFound"
        \/ was.st = "found" /\ was.kind \in {"link", "dir"}

\* C11 as stated: whatever was at an alias path before (nothing, a symlink
\* to the canonical directory or to any other target, a real directory),
\* the reconciliation succeeds and the alias path is a symlink whose target
\* is the canonical directory.
C11_AsStated ==
    (wPc = "done") =>
       \A i \in DOMAIN C11_Aliases :
          LET path  == C11_AliasPath(C11_Aliases[i])
              canon == C10_Canonical(wPage, wRedirects)
              now   == Lstat(wFs, path)
          IN  (/\ C11_Covered(path)
               /\ Lstat(wFs, canon).st = "found"
               /\ Lstat(wFs, canon).kind = "dir")
              => /\ wOut.ok
                 /\ now.st = "found" /\ now.kind = "link"
                 /\ wFs[now.at].target = canon

\* The alias path of B held a symlink whose target does not exist; the
\* write has failed on it and the link still points at the old target.
C11_Witness ==
    /\ wPc = "done"
    /\ C10_HasQid(wPage)
    /\ wRedirects = <<[lang |-> <<"en">>, name |-> <<"B">>]>>
    /\ Lstat(wBefore, WikiDir \o << <<"B">> >>).kind = "link"
    /\ ~exists(wBefore, WikiDir \o << <<"B">> >>)
    /\ ~wOut.ok /\ wOut.err = "AlreadyExists"
    /\ Lstat(wFs, WikiDir \o << <<"B">> >>).kind = "link"
    /\ wFs[WikiDir \o << <<"B">> >>].target # C10_Canonical(wPage, wRedirects)

\* C12 as stated: a second write with the same base, page, alias titles and
\* text succeeds and leaves every directory, symlink and file as the first
\* left them.
C12_AsStated ==
    [][(wPc = "done" /\ wOut.ok) => (wOut'.ok /\ wFs' = wFs)]_vars

\* The second write of a page with the aliases A/B and A has succeeded and
\* has put a symlink B into the canonical directory that the first write
\* had not put there.
C12_Witness ==
    /\ wPc = "again" /\ wOut.ok
    /\ wBefore = EmptyBase
    /\ C10_HasQid(wPage)
    /\ Len(wRedirects) = 2
    /\ wRedirects[1].name = <<"A", "/", "B">> /\ wRedirects[2].name = <<"A">>
    /\ Lstat(wFs, C10_Canonical(wPage, wRedirects) \o << <<"B">> >>).kind = "link"

----------------------------------------------------------------------------
(* C13: the titles of a written page on disk.                              *)

\* The titles of a page that parse: its own and those of its redirects.
C13_KnownTitles(page) ==
    { Title_from_title(n, page.lang).title :
        n \in { m \in {page.name} \cup {page.redirects[i] : i \in DOMAIN page.redirects} :
                  Title_from_title(m, page.lang).ok } }

\* C13 as stated: once a matched page has been written, each of its known
\* titles, its own and its redirects', other than the one that was made
\* canonical is a symlink at <lang>.wikipedia.org/wiki/<name> whose target
\* is the canonical directory.
C13_AsStated ==
    (rPc = "read" /\ rResult = "written") =>
       LET canon == C10_Canonical(rPage, matching_titles(rArgs, rPage))
       IN  \A t \in C13_KnownTitles(rPage) :
              LET now == Lstat(rFs, C11_AliasPath(t))
              IN  C11_AliasPath(t) # canon
                  => /\ now.st = "found" /\ now.kind = "link"
                     /\ rFs[now.at].target = canon

\* A page matched by its QID alone has been written to wikidata/Q7, and
\* nothing is at the path of its title A.
C13_Witness ==
    /\ rPc = "read" /\ rResult = "written"
    /\ rArgs.wikipedia_titles = {}
    /\ rPage.name = <<"A">> /\ rPage.main_entity = Entity(<<"Q", "7">>)
    /\ Stat(rFs, BaseDir \o << <<"wikidata">>, <<"Q", "7">>, <<"en", ".", "html">> >>).st
          = "found"
    /\ ~exists(rFs, WikiDir \o << <<"A">> >>)

----------------------------------------------------------------------------
(* C15: what a record appends to the discovery log.                        *)

\* The line a record is to append: its QID as Q<value> and a newline when
\* a log is configured and the page matched by title, not by QID, and has a
\* QID; else nothing.
C15_Line(args, page) ==
    IF /\ args.write_new_qids
       /\ C1_TitleIn(args, page)
       /\ ~C1_QidIn(args, page)
       /\ C10_HasQid(page)
    THEN <<"Q">> \o StripZeros(QidDigitsOf(page.main_entity.identifier)) \o <<"\n">>
    ELSE <<>>

\* C15: while a record is being decided nothing has been appended; once it
\* is done the log has grown by exactly the line Q<value>\n when the page
\* matched by title, did not match by QID and has a QID, and by nothing in
\* every other case; Qid::from_str of the line is the page's QID.
C15_DiscoveryLog ==
    /\ rPc \in {"page", "matched", "panicked"} => rLog = rPrev.log
    /\ (rPc \in {"read", "exit"} /\ rRead > 0) =>
          /\ rLog = rPrev.log \o C15_Line(rArgs, rPage)
          /\ C15_Line(rArgs, rPage) # <<>> =>
                /\ Qid_from_str(C15_Line(rArgs, rPage)).ok
                /\ Qid_from_str(C15_Line(rArgs, rPage)).qid
                      = Qid_from_str(rPage.main_entity.identifier).qid

\* Two records have each appended the line Q7.
C15_Witness ==
    /\ rPc = "read" /\ rRead = 2
    /\ rPrev.log = <<"Q", "7", "\n">>
    /\ rLog = <<"Q", "7", "\n", "Q", "7", "\n">>

----------------------------------------------------------------------------
(* C17: a matched page whose simplification panicked.                      *)

\* base_dir/errors/<page name>.html; the names of the pages here hold no
\* slash, so that nothing is to be escaped.
C17_ErrorFile(page) == BaseDir \o << <<"errors">>, page.name \o <<".", "html">> >>

\* C17 as stated: when the simplification of a matched page ended in
\* HtmlError::Panic, the page's unsimplified HTML is in
\* base_dir/errors/<name>.html and no article was written for the page.
C17_AsStated ==
    (rPc = "read" /\ rResult = "Panic" /\ rArgs.output_dir) =>
       LET saved == Stat(rFs, C17_ErrorFile(rPage))
       IN  /\ saved.st = "found" /\ saved.kind = "file"
           /\ rFs[saved.at].data = article_body(rPage.html)
           /\ \A f \in DOMAIN rFs \ {saved.at} :
                 f \in DOMAIN rPrev.fs /\ rFs[f] = rPrev.fs[f]

\* A matched page has panicked in simplify, and the output directory is as
\* it was before the record: there is no errors directory in it.
C17_Witness ==
    /\ rPc = "read" /\ rResult = "Panic" /\ rArgs.output_dir
    /\ rFs = rPrev.fs
    /\ ~exists(rFs, BaseDir \o << <<"errors">> >>)

----------------------------------------------------------------------------
(* C14: concurrent reconciliation of one alias path.                       *)

\* C14 as stated: when every writer has ended, each has completed, and the
\* alias path is a symlink to the canonical directory of one of them.
C14_AsStated ==
    (\A p \in Procs : cPc[p] \in {"done", "failed"}) =>
       /\ \A p \in Procs : cPc[p] = "done"
       /\ Lstat(cFs, RaceAlias).st = "found"
       /\ Lstat(cFs, RaceAlias).kind = "link"
       /\ cFs[RaceAlias].target \in {cMain[p] : p \in Procs}

\* Two writers found nothing at the alias path; one has linked it, the
\* other's symlink call has failed with AlreadyExists.
C14_Witness ==
    /\ cPc[1] = "done"
    /\ cPc[2] = "failed" /\ cErr[2] = "AlreadyExists"
    /\ Lstat(cFs, RaceAlias).kind = "link"

----------------------------------------------------------------------------
(* C16: the discovery log under concurrent appends.                        *)

RECURSIVE C16_Lines(_)
\* The lines of a text: what stands before each newline, and what is left
\* after the last.
C16_Lines(text) ==
    IF \A i \in DOMAIN text : text[i] # "\n" THEN <<text>>
    ELSE LET k == CHOOSE i \in DOMAIN text :
                     text[i] = "\n" /\ \A j \in 1..(i - 1) : text[j] # "\n"
         IN  <<SubSeq(text, 1, k - 1)>> \o C16_Lines(SubSeq(text, k + 1, Len(text)))

\* The canonical line of a QID, less its newline: the one of Q7 and Q12 that
\* Qid::from_str reads as that QID.
C16_LineOf(q) ==
    CHOOSE l \in { <<"Q", "7">>, <<"Q", "1", "2">> } : Qid_from_str(l).qid = q

\* How often x is in a sequence.
C16_Count(seq, x) == Cardinality({i \in DOMAIN seq : seq[i] = x})

\* C16: the log is a sequence of whole lines: it ends where a line ends,
\* each QID's line Q<value> is in it as often as appends of that QID have
\* been made, and it holds no other line.
C16_WholeLines ==
    LET lines == C16_Lines(aFile)
        whole == SubSeq(lines, 1, Len(lines) - 1)
        made(p) == SubSeq(aTodo[p].given, 1,
                          aTodo[p].begun - (IF aPending[p] # <<>> THEN 1 ELSE 0))
        Sum[k \in 0..MaxProcs, q \in AppendQids] ==
            IF k = 0 \/ k \notin Procs THEN 0
            ELSE Sum[k - 1, q] + C16_Count(made(k), q)
    IN  /\ lines[Len(lines)] = <<>>
        /\ \A q \in AppendQids :
              C16_Count(whole, C16_LineOf(q)) = Sum[MaxProcs, q]
        /\ \A i \in DOMAIN whole :
              \E q \in AppendQids : whole[i] = C16_LineOf(q)

\* Two processes have both appended Q7 and Q12, in different orders, their
\* appends interleaved, and the log holds four whole lines.
C16_Witness ==
    /\ \A p \in Procs : aPending[p] = <<>> /\ aTodo[p].begun = Len(aTodo[p].given)
    /\ aTodo[1].given # aTodo[2].given
    /\ Len(aTodo[1].given) = 2 /\ Len(aTodo[2].given) = 2
    /\ C16_Lines(aFile) = << <<"Q", "7">>, <<"Q", "1", "2">>, <<"Q", "1", "2">>,
                             <<"Q", "7">>, <<>> >>

----------------------------------------------------------------------------
(* C18, C19, C20: the rows of the tag file.                                *)

\* The file line the next turn of the loop reads: the first line after the
\* consumed ones that is not blank (one past the last line if none is left).
C18_NextLine ==
    LET left == { i \in (gNext + 1)..Len(gFile.lines) :
                    gFile.lines[i] # BlankLine }
    IN  IF left = {} THEN Len(gFile.lines) + 1
        ELSE CHOOSE i \in left : \A j \in left : i <= j

\* The next turn reads a row, and no read fails on the way to it.
C18_ReadsRow ==
    /\ gPc = "rows"
    /\ C18_NextLine <= Len(gFile.lines)
    /\ gFile.io \notin (gNext + 1)..C18_NextLine

\* The row has as many cells as the header row and is UTF-8 text.
C18_WellFormed(row) ==
    Len(row.cells) = Len(gFile.lines[1].cells) /\ row.utf8

C18_Column(name) ==
    CHOOSE i \in 1..Len(gFile.lines[1].cells) : gFile.lines[1].cells[i] = name

\* The errors the step adds.
C18_NewErrors == SubSeq(gErrors', Len(gErrors) + 1, Len(gErrors'))

C18_Kinds(errors) == [i \in 1..Len(errors) |-> errors[i].kind]

\* C18: for a well-formed data row the wikidata cell and the wikipedia cell are
\* handled independently: a cell that is not empty after trimming gives one
\* insertion into its collection when it parses and one ParseLineError of its
\* kind when it does not, an empty cell gives neither, and a failure of one
\* cell does not stop the other cell's insertion.
C18_CellsIndependent ==
    [][ (C18_ReadsRow /\ C18_WellFormed(gFile.lines[C18_NextLine])) =>
          LET row == gFile.lines[C18_NextLine].cells
              qid == Trim(row[C18_Column(Wikidata)])
              title == Trim(row[C18_Column(Wikipedia)])
              q == Qid_from_str(qid)
              t == Title_from_osm_tag(title)
          IN  /\ gQids' = gQids \o (IF qid # <<>> /\ q.ok THEN <<q.qid>> ELSE <<>>)
              /\ gTitles' = gTitles \o (IF title # <<>> /\ t.ok THEN <<t.title>>
                                        ELSE <<>>)
              /\ SubSeq(gErrors', 1, Len(gErrors)) = gErrors
              /\ C18_Kinds(C18_NewErrors)
                   = (IF qid # <<>> /\ ~q.ok THEN <<"Qid">> ELSE <<>>)
                     \o (IF title # <<>> /\ ~t.ok THEN <<"Title">> ELSE <<>>)
      ]_vars

\* A file was read to its end in which one row has a good QID and a bad title
\* and the next row a bad QID and a good title.
C18_Witness ==
    /\ gPc = "done"
    /\ gOut.ok
    /\ gQids = <<Qid_from_str(<<"Q", "7">>).qid>>
    /\ Len(gTitles) = 1
    /\ C18_Kinds(gErrors) = <<"Title", "Qid">>

\* The header row names both columns.
C19_HasColumns ==
    /\ gFile.lines # <<>>
    /\ \E i \in 1..Len(gFile.lines[1].cells) : gFile.lines[1].cells[i] = Wikidata
    /\ \E i \in 1..Len(gFile.lines[1].cells) : gFile.lines[1].cells[i] = Wikipedia

\* A malformed data row adds one ParseLineError of kind Tsv, inserts nothing
\* and leaves the loop running.
C19_RowSkipped ==
    (C18_ReadsRow /\ ~C18_WellFormed(gFile.lines[C18_NextLine])) =>
        /\ SubSeq(gErrors', 1, Len(gErrors)) = gErrors
        /\ C18_Kinds(C18_NewErrors) = <<"Tsv">>
        /\ gQids' = gQids
        /\ gTitles' = gTitles
        /\ gPc' = "rows"

\* A call that returned Ok read every line of the file.
C19_ReadToEnd == (gPc = "done" /\ gOut.ok) => gNext = Len(gFile.lines)

\* C19 as stated: a row that cannot be parsed as a delimited record gives one
\* ParseLineError, inserts nothing and does not stop the reading, and the call
\* returns an error only for an I/O failure or a missing wikidata or wikipedia
\* header column.
C19_AsStated ==
    /\ [][C19_RowSkipped]_vars
    /\ [](C19_ReadToEnd)
    /\ [](gPc = "done" => (gOut.ok <=> (gFile.io = 0 /\ C19_HasColumns)))

\* C19 amended: a data row that cannot be parsed as a delimited record gives
\* one ParseLineError, inserts nothing and does not stop the reading, and the
\* call returns an error only for an I/O failure, a header row that is not
\* UTF-8 text, or a missing wikidata or wikipedia header column.
C19_Amended ==
    /\ [][C19_RowSkipped]_vars
    /\ [](C19_ReadToEnd)
    /\ [](gPc = "done" =>
            (gOut.ok <=> (/\ gFile.io = 0
                          /\ C19_HasColumns
                          /\ gFile.lines[1].utf8)))

\* A file was read to its end whose first data row is malformed and whose
\* second data row gave a QID.
C19_Witness ==
    /\ gPc = "done"
    /\ gOut.ok
    /\ Len(gFile.lines) = 3
    /\ ~C18_WellFormed(gFile.lines[2])
    /\ gFile.lines[2] # BlankLine
    /\ C18_Kinds(gErrors) = <<"Tsv">>
    /\ gQids = <<Qid_from_str(<<"Q", "7">>).qid>>

\* C20 as stated: every ParseLineError carries the 1-based number of the file
\* line that holds the row which caused it, the header row being line 1.
C20_AsStated ==
    [][ C18_ReadsRow =>
          \A i \in 1..Len(C18_NewErrors) : C18_NewErrors[i].line = C18_NextLine
      ]_vars

\* The bad QID of the row on line 2 was recorded with line 3.
C20_Witness ==
    /\ Len(gFile.lines) >= 2
    /\ gFile.lines[2] # BlankLine
    /\ gErrors # <<>>
    /\ gErrors[1].kind = "Qid"
    /\ gErrors[1].line = 3

----------------------------------------------------------------------------
(* C21: the rows of the get-tags run.                                      *)

\* The element has a wikidata or a wikipedia tag that is not empty after
\* trimming.
C21_Tagged(e) ==
    \E i \in 1..Len(e.tags) :
        /\ e.tags[i][1] \in {"wikidata", "wikipedia"}
        /\ Trim(e.tags[i][2]) # <<>>

\* How many elements with the id the blobs hold that are tagged.
C21_Expected(id) ==
    Cardinality({ p \in UNION { {b} \X (1..Len(pFile[b].elements)) :
                                  b \in 1..Len(pFile) } :
                    /\ pFile[p[1]].kind = "OsmData"
                    /\ pFile[p[1]].elements[p[2]].id = id
                    /\ C21_Tagged(pFile[p[1]].elements[p[2]]) })

\* How many data rows written begin with the id.
C21_Written(id) ==
    Cardinality({ i \in 2..Len(pRows) : pRows[i][1] = IntToString(id) })

C21_Ids == { e.id : e \in PbfElements }

\* What holds in every state: the header is the first row and the only one
\* before any data row, no element has more rows than it should, and once the
\* writer has returned every worker has finished, every tagged element has
\* its one row, the others have none, and the count is the number of data
\* rows.
C21_Rows ==
    /\ pRows # <<>> => pRows[1] = PbfHeaderRow
    /\ pCount = (IF pRows = <<>> THEN 0 ELSE Len(pRows) - 1)
    /\ \A id \in C21_Ids : C21_Written(id) <= C21_Expected(id)
    /\ pPc = "done" =>
          /\ ~pSender
          /\ pBlobs = <<>>
          /\ \A w \in Workers : pWork[w] = <<>>
          /\ pChan = <<>>
          /\ \A id \in C21_Ids : C21_Written(id) = C21_Expected(id)

----------------------------------------------------------------------------
(* C22: the forms of tag Title::from_osm_tag reads.                        *)

\* The text begins with "http://" or "https://".
C22_HttpSlashes(text) ==
    \/ StartsWith(text, <<"http", ":", "/", "/">>)
    \/ StartsWith(text, <<"https", ":", "/", "/">>)

\* The text begins with "http:" or "https:".
C22_Http(text) ==
    StartsWith(text, <<"http", ":">>) \/ StartsWith(text, <<"https", ":">>)

\* What the claim says of a tag that is not a URL: without ':' it fails with
\* MissingColon; split at its first ':' into a language that is not a scheme
\* and a title that is not a URL, it gives from_title of the two; with a URL
\* after the ':' it gives from_url of that URL.
C22_TagForms ==
    (tPc = "made" /\ tIn.kind = "tag") =>
        LET c == SplitOnce(Trim(tIn.tag), ":")
        IN  IF ~c.some THEN tOut.main = TitleErr("MissingColon")
            ELSE IF C22_Http(TrimStart(tIn.tag)) THEN TRUE
            ELSE IF C22_HttpSlashes(TrimStart(c.after))
            THEN tOut.main = Title_from_url(TrimStart(c.after))
            ELSE tOut.main = Title_from_title(c.after, c.before)

\* C22 as stated: from_osm_tag accepts a bare Wikipedia URL and the compound
\* form <lang>:<url>, and in both cases the result equals from_url of the URL;
\* a plain <lang>:<title> tag gives from_title(title, lang), and a tag without
\* ':' fails with MissingColon.
C22_AsStated ==
    /\ C22_TagForms
    /\ (tPc = "made" /\ tIn.kind = "url" /\ tOut.main.ok) =>
          /\ tOut.tag = tOut.main
          /\ \A l \in WrapLangs : tOut.wrapped[l] = tOut.main

\* C22 amended: from_osm_tag on a bare URL that begins with "http:" or "https:"
\* gives from_url of the URL, and so does the compound form <lang>:<url> when
\* the URL begins with "http://" or "https://" and the language is neither
\* "http" nor "https"; a plain <lang>:<title> tag gives from_title(title,
\* lang), and a tag without ':' fails with MissingColon.
C22_Amended ==
    /\ C22_TagForms
    /\ (tPc = "made" /\ tIn.kind = "url" /\ C22_Http(UrlText(tIn))) =>
          tOut.tag = tOut.main
    /\ (tPc = "made" /\ tIn.kind = "url" /\ C22_HttpSlashes(UrlText(tIn))) =>
          \A l \in WrapLangs : tOut.wrapped[l] = tOut.main

\* A mobile URL was read bare and behind the prefix "de": the Title has the
\* language of the host.
C22_Witness ==
    /\ tPc = "made"
    /\ tIn.kind = "url"
    /\ tIn.scheme = <<"https", ":", "/", "/">>
    /\ tIn.host = <<"en", ".", "m", ".", "wikipedia", ".", "org">>
    /\ tOut.main.ok
    /\ tOut.tag = tOut.main
    /\ tOut.wrapped[<<"de">>] = tOut.main
    /\ tOut.main.title.lang = <<"en">>

----------------------------------------------------------------------------
(* C23: named-section removal.                                             *)

\* The nodes of the document: those reached from the root, in document order.
C23_Document(d) == Descendants(d, Root)

\* The node is one of the set or lies below one.
C23_Under(d, n, set) == \E m \in set : n \in Chars(Descendants(d, m))

\* The header's first text token is a title configured for the language.
C23_Named(d, h, lang) ==
    /\ d.val[h].tag \in Headers
    /\ lang \in DOMAIN sections_to_remove
    /\ TextNodes(d, h) # <<>>
    /\ d.val[TextNodes(d, h)[1]].text \in sections_to_remove[lang]

\* The header and its following siblings before the next sibling header of an
\* equal or lower numeral.
C23_Section(d, h) ==
    LET sibs == d.kids[ParentOf(d, h)]
        at == CHOOSE i \in 1..Len(sibs) : sibs[i] = h
        ends == { i \in (at + 1)..Len(sibs) :
                    /\ d.val[sibs[i]].tag \in Headers
                    /\ HeaderLevel(d.val[sibs[i]].tag) <= HeaderLevel(d.val[h].tag) }
    IN  { sibs[i] : i \in { j \in at..Len(sibs) : \A e \in ends : j < e } }

C23_Deleted(d, lang) ==
    UNION { C23_Section(d, h) :
              h \in { n \in Chars(C23_Document(d)) : C23_Named(d, n, lang) } }

\* The phase has just run.
C23_Ran(name) == hPc = name /\ hPc' # name /\ hPc' # "unwinding"

\* C23: named-section removal deletes each header whose first text token is a
\* configured title for the language, with every following sibling up to but
\* not including the next sibling header of equal or higher level; every other
\* node stays where it was, in the order it had.
C23_NamedSections ==
    [][ C23_Ran("remove_named_header_siblings") =>
          /\ C23_Document(hDoc')
               = SelectSeq(C23_Document(hDoc),
                           LAMBDA n : ~C23_Under(hDoc, n, C23_Deleted(hDoc, hLang)))
          /\ \A n \in Chars(C23_Document(hDoc')) :
                ParentOf(hDoc', n) = ParentOf(hDoc, n)
          /\ hDoc'.val = hDoc.val
      ]_vars

\* The text with a node of the given text in the document.
C23_HasText(d, text) ==
    \E n \in Chars(TextNodes(d, Root)) : d.val[n].text = text

\* A section was removed from the named h2 up to the next h2: the paragraph
\* and the h3 subsection after the named header are gone, the paragraph
\* before it and the one after the next h2 are there.
C23_Witness ==
    /\ hApplied = <<"remove_named_header_siblings">>
    /\ C23_HasText(hIn, <<"R", "2">>)
    /\ ~C23_HasText(hDoc, <<"R", "1">>)
    /\ ~C23_HasText(hDoc, <<"R", "2">>)
    /\ ~C23_HasText(hDoc, <<"References">>)
    /\ C23_HasText(hDoc, <<"K", "p">>)
    /\ C23_HasText(hDoc, <<"H", "i">>)

----------------------------------------------------------------------------
(* C24: the deny list and the allow list.                                  *)

C24_Denied(d, n) ==
    /\ IsElement(d, n)
    /\ Matches("ELEMENT_DENY_LIST", d.val[n])
    /\ ~Matches("ELEMENT_ALLOW_LIST", d.val[n])

C24_Allowed(d, n) ==
    IsElement(d, n) /\ Matches("ELEMENT_ALLOW_LIST", d.val[n])

C24_Lost ==
    /\ hApplied = <<"remove_named_header_siblings", "remove_denylist_elements">>
    /\ C23_Deleted(hIn, hLang) = {}
    /\ \E n \in Chars(C23_Document(hIn)) :
          /\ C24_Allowed(hIn, n)
          /\ n \notin Chars(C23_Document(hDoc))

----------------------------------------------------------------------------
(* C25: removal of empty sections.                                         *)

\* The node carries no text but whitespace: an element or a text node with
\* whitespace text at most, or a comment.
C25_Blank(d, n) ==
    IF d.val[n].tag = "#text" THEN Chars(d.val[n].text) \subseteq WhiteSpace
    ELSE is_empty_or_whitespace(d, n)

\* The section directly contains a header all of whose siblings are blank or
\* headers themselves.
C25_EmptySection(d, s) ==
    /\ d.val[s].tag = "section"
    /\ \E i \in 1..Len(d.kids[s]) :
          /\ d.val[d.kids[s][i]].tag \in Headers
          /\ \A j \in (1..Len(d.kids[s])) \ {i} :
                \/ d.val[d.kids[s][j]].tag \in Headers
                \/ C25_Blank(d, d.kids[s][j])

\* C25: the phase deletes a section exactly when it directly contains a
\* header all of whose siblings, before and after, are empty, whitespace only
\* or headers; a section whose header has a sibling with other text is kept
\* with its content.
C25_AsStated ==
    [][ C23_Ran("remove_empty_sections") =>
          C23_Document(hDoc')
            = SelectSeq(C23_Document(hDoc),
                 LAMBDA n : ~C23_Under(hDoc, n,
                     { s \in Chars(C23_Document(hDoc)) : C25_EmptySection(hDoc, s) }))
      ]_vars

\* A section of the input that held a header and a text of its own, and that
\* the earlier phases left alone, is gone with its text.
C25_Witness ==
    /\ hApplied = <<"remove_named_header_siblings", "remove_denylist_elements",
                    "remove_empty_sections">>
    /\ C23_Deleted(hIn, hLang) = {}
    /\ \E s \in Chars(C23_Document(hIn)) :
          /\ hIn.val[s].tag = "section"
          /\ ~C23_Under(hIn, s, { m \in Chars(C23_Document(hIn)) : C24_Denied(hIn, m) })
          /\ \E t \in Chars(hIn.kids[s]) :
                hIn.val[t].tag = "#text" /\ ~C25_Blank(hIn, t)
          /\ s \notin Chars(C23_Document(hDoc))

----------------------------------------------------------------------------
(* expand_id on its own: a tree, some of whose nodes were detached before  *)
(* (as test::remove_links does), and one call of expand_id.                *)

\* The most nodes detached from the tree before the call.
MaxCut == 1

\* The trees: a parsed document holding one block between two paragraphs.
ExpandTrees ==
    { parse_document(<<Doctype, Comment>>, {}, <<>>,
                     <<P(<<"H", "i">>), b, P(<<"K", "p">>)>>) : b \in Blocks }

ExpandInit ==
    /\ QidIdle
    /\ TitleIdle
    /\ HtmlIdle
    /\ WriterIdle
    /\ RunIdle
    /\ RaceIdle
    /\ AppendIdle
    /\ TagsIdle
    /\ PbfIdle
    /\ TreeIdle
    /\ xDoc \in ExpandTrees
    /\ xCut = 0
    /\ xId = 0
    /\ xOut = <<>>
    /\ xPc = "tree"

ExpandOthers ==
    UNCHANGED <<qidVars, titleVars, htmlVars, writerVars, runVars, raceVars,
                appendVars, tagVars, pbfVars, treeVars>>

\* A node is detached from its parent, as an earlier removal leaves it.
ExpandDetach(n) ==
    /\ xPc = "tree"
    /\ xCut < MaxCut
    /\ ParentOf(xDoc, n) # NoNode
    /\ xDoc' = detach(xDoc, n)
    /\ xCut' = xCut + 1
    /\ UNCHANGED <<xId, xOut, xPc>>
    /\ ExpandOthers

\* expand_id(document, id)
ExpandCall(id) ==
    /\ xPc = "tree"
    /\ IsElement(xDoc, id)
    /\ xId' = id
    /\ xOut' = expand_id(xDoc, id)
    /\ xPc' = "done"
    /\ UNCHANGED <<xDoc, xCut>>
    /\ ExpandOthers

ExpandNext ==
    \/ \E n \in Ids(xDoc) : ExpandDetach(n)
    \/ \E id \in Ids(xDoc) : ExpandCall(id)

SpecExpand == ExpandInit /\ [][ExpandNext]_vars

----------------------------------------------------------------------------
(* C26: expand_id.                                                         *)

\* C26: expanding an element that has a parent puts its children into the
\* parent's child list at the element's former position, in their order,
\* detaches the element, and changes no other node.
C26_Attached ==
    (xPc = "done" /\ ParentOf(xDoc, xId) # NoNode) =>
        LET p == ParentOf(xDoc, xId)
            i == IndexOf(xDoc.kids[p], xId)
        IN  /\ xOut.kids[p] = SubSeq(xDoc.kids[p], 1, i - 1) \o xDoc.kids[xId]
                                \o SubSeq(xDoc.kids[p], i + 1, Len(xDoc.kids[p]))
            /\ ParentOf(xOut, xId) = NoNode
            /\ xOut.kids[xId] = <<>>
            /\ \A n \in Ids(xDoc) \ {p, xId} : xOut.kids[n] = xDoc.kids[n]
            /\ xOut.val = xDoc.val

\* Expanding an element that was already detached does nothing.
C26_Detached ==
    (xPc = "done" /\ ParentOf(xDoc, xId) = NoNode) => xOut = xDoc

\* C26, both halves.
C26_ExpandId == C26_Attached /\ C26_Detached

\* An element with two children or more, between two siblings, was expanded.
C26_Witness ==
    /\ xPc = "done"
    /\ ParentOf(xDoc, xId) # NoNode
    /\ Len(xDoc.kids[xId]) >= 2
    /\ IndexOf(xDoc.kids[ParentOf(xDoc, xId)], xId) > 1
    /\ IndexOf(xDoc.kids[ParentOf(xDoc, xId)], xId)
          < Len(xDoc.kids[ParentOf(xDoc, xId)])
    /\ xOut # xDoc

\* An element detached before the call was given to expand_id.
C26_WitnessDetached ==
    /\ xPc = "done"
    /\ xCut = 1
    /\ ParentOf(xDoc, xId) = NoNode
    /\ xDoc.kids[xId] # <<>>

----------------------------------------------------------------------------
(* C27: the final expansions.                                              *)

\* An a, section, div, body or html element, or a span without attributes.
C27_Wrapper(d, n) ==
    \/ d.val[n].tag \in {"a", "section", "div", "body", "html"}
    \/ d.val[n].tag = "span" /\ d.val[n].attrs = {} /\ d.val[n].cls = {}

RECURSIVE C27_Keeper(_, _)
\* The nearest node above n that is no wrapper.
C27_Keeper(d, n) ==
    IF C27_Wrapper(d, ParentOf(d, n)) THEN C27_Keeper(d, ParentOf(d, n))
    ELSE ParentOf(d, n)

\* simplify has returned.
C27_Simplified ==
    /\ hApplied # <<>>
    /\ hApplied[Len(hApplied)] = "remove_toplevel_whitespace"

\* C27: after a successful simplification the document holds no a, section,
\* div, body or html element and no span without attributes, at any depth;
\* what the unwrapped elements held is still there, where the element was:
\* the other nodes keep their document order and hang from the nearest node
\* above them that was kept.
C27_Flattened ==
    /\ [](C27_Simplified =>
            \A n \in Chars(C23_Document(hDoc)) : ~C27_Wrapper(hDoc, n))
    /\ [][ C23_Ran("final_expansions") =>
             /\ C23_Document(hDoc')
                  = SelectSeq(C23_Document(hDoc), LAMBDA n : ~C27_Wrapper(hDoc, n))
             /\ \A n \in Chars(Tail(C23_Document(hDoc'))) :
                   ParentOf(hDoc', n) = C27_Keeper(hDoc, n)
             /\ hDoc'.val = hDoc.val
         ]_vars

\* A paragraph that held a text, a link around a span around a text, and a
\* text, now holds the three texts; section, body and html are gone.
C27_Witness ==
    /\ hPc = "done"
    /\ hOut = HtmlOk
    /\ \E n \in Chars(C23_Document(hIn)) : hIn.val[n].tag = "section"
    /\ \E p \in Chars(hDoc.kids[Root]) :
          /\ hDoc.val[p].tag = "p"
          /\ Len(hDoc.kids[p]) = 3
          /\ [i \in 1..3 |-> hDoc.val[hDoc.kids[p][i]].text]
                = << <<"H", "i">>, <<"L", "n">>, <<"E", "n">> >>

----------------------------------------------------------------------------
(* C30: simplification and text.                                           *)

\* C30: the text nodes of the document under simplification, in document
\* order, are a subsequence of the text nodes of the input in document order,
\* each with the text it had: no phase creates, alters or reorders text.
C30_TextSubsequence ==
    /\ TextNodes(hDoc, Root)
         = SelectSeq(TextNodes(hIn, Root),
                     LAMBDA n : n \in Chars(TextNodes(hDoc, Root)))
    /\ \A n \in Chars(TextNodes(hDoc, Root)) : hDoc.val[n] = hIn.val[n]
    /\ Len(hDoc.val) = Len(hIn.val)

\* A simplified document with two text nodes or more that has lost some of
\* the input's text nodes and holds text that an expanded element held.
C30_Witness ==
    /\ hPc = "done"
    /\ hOut = HtmlOk
    /\ Len(TextNodes(hDoc, Root)) >= 2
    /\ Len(TextNodes(hDoc, Root)) < Len(TextNodes(hIn, Root))
    /\ \E n \in Chars(TextNodes(hDoc, Root)) :
          C27_Wrapper(hIn, ParentOf(hIn, n))

----------------------------------------------------------------------------
(* Successive writes into one output tree: the loop of run over the pages  *)
(* of a dump, reduced to its calls of write.                               *)

\* The most pages written.
MaxPages == 2

\* The names of the pages and of the titles they are matched by.
TreeNames == { <<"A">>, <<"B">>, <<"B", "/", "C">>, <<"/", "A">> }

TreeTitles == { [lang |-> <<"en">>, name |-> n] : n \in TreeNames }

\* What write is called with: a page and the titles it was matched by.
TreeCalls ==
    [page : [name : TreeNames,
             lang : { <<"en">> },
             main_entity : { NoEntity, Entity(<<"Q", "1">>), Entity(<<"Q", "2">>) },
             redirects : { <<>> }],
     redirects : TextsUpTo(TreeTitles, 1)]

TreeInit ==
    /\ QidIdle
    /\ TitleIdle
    /\ HtmlIdle
    /\ WriterIdle
    /\ RunIdle
    /\ RaceIdle
    /\ AppendIdle
    /\ TagsIdle
    /\ PbfIdle
    /\ ExpandIdle
    /\ sPages \in TextsUpTo(TreeCalls, MaxPages) \ { <<>> }
    /\ sDone = 0
    /\ sFs = EmptyBase
    /\ sOut = <<>>

\* write(&args.output_dir, &page, matching_titles, &html) for the next page
TreeWrite ==
    /\ sDone < Len(sPages)
    /\ \E r \in { write(sFs, BaseDir, sPages[sDone + 1].page,
                        sPages[sDone + 1].redirects, <<"new">>) } :
          /\ sFs' = r.fs
          /\ sOut' = Append(sOut, [ok |-> r.ok, err |-> r.err])
    /\ sDone' = sDone + 1
    /\ UNCHANGED <<sPages, qidVars, titleVars, htmlVars, writerVars, runVars,
                   raceVars, appendVars, tagVars, pbfVars, expandVars>>

TreeNext == TreeWrite

SpecTree == TreeInit /\ [][TreeNext]_vars

----------------------------------------------------------------------------
(* C28: the paths of the Writer and the base directory.                    *)

\* The path has base as a proper prefix and no ".." component.
C28_Beneath(base, path) ==
    /\ Len(path) > Len(base)
    /\ SubSeq(path, 1, Len(base)) = base
    /\ \A i \in 1..Len(path) : path[i] # <<".", ".">>

\* The entries of the file system that the step made, removed or changed.
C28_Touched(before, after) ==
    { q \in DOMAIN before \cup DOMAIN after :
        \/ q \notin DOMAIN before
        \/ q \notin DOMAIN after
        \/ before[q] # after[q] }

\* The titles a call of write is given: the page's own, when it parses, and
\* the titles it was matched by.
C28_Titles(call) ==
    Chars(call.redirects)
        \cup (IF Page_title(call.page).ok THEN {Page_title(call.page).title} ELSE {})

\* C28: every path the Writer creates, removes, links or writes lies beneath
\* the base directory, and get_dir(base) of every title has base as a proper
\* prefix and does not leave it, whatever the name holds.
C28_AsStated ==
    /\ [](\A i \in 1..sDone : \A t \in C28_Titles(sPages[i]) :
            C28_Beneath(BaseDir, Title_get_dir(BaseDir, t)))
    /\ [][ \A q \in C28_Touched(sFs, sFs') : C28_Beneath(BaseDir, q) ]_vars

\* A write has made a symlink at /A, outside the output directory /out.
C28_Witness ==
    /\ sDone >= 1
    /\ sOut[1].ok
    /\ << <<"A">> >> \in DOMAIN sFs
    /\ sFs[<< <<"A">> >>].kind = "link"

----------------------------------------------------------------------------
(* C29: a write and the pages written before.                              *)

\* The QID of the call's page, as a set.
C29_Qids(call) ==
    IF Page_wikidata(call.page).some THEN {Page_wikidata(call.page).qid} ELSE {}

\* The two calls are for different pages: no QID and no title in common.
C29_Different(a, b) ==
    /\ C29_Qids(a) \cap C29_Qids(b) = {}
    /\ C28_Titles(a) \cap C28_Titles(b) = {}

\* The canonical directory of the call's page.
C29_Main(call) == main_dir(BaseDir, call.page, call.redirects)

\* The paths the call's write made: the canonical directory, the HTML file
\* in it, and a symlink for each remaining title.
C29_Made(call) ==
    {C29_Main(call).dir,
     set_extension(Push(C29_Main(call).dir, call.page.lang), <<"html">>)}
        \cup {Title_get_dir(BaseDir, t) : t \in Chars(C29_Main(call).rest)}

\* The path leads to the same entry, with the same content, in both trees.
C29_Same(before, after, path) ==
    /\ Lstat(after, path) = Lstat(before, path)
    /\ Lstat(before, path).st = "found" =>
          after[Lstat(after, path).at] = before[Lstat(before, path).at]

\* The entries at or below the directory.
C29_Below(fs, dir) ==
    { q \in DOMAIN fs : Len(q) >= Len(dir) /\ SubSeq(q, 1, Len(dir)) = dir }

\* C29: writing a page never removes, retargets or writes inside the
\* canonical directory, the HTML file or the alias symlinks that an earlier
\* write made for a different page, one that shares no QID and no title
\* with it.
C29_AsStated ==
    [][ \A i \in 1..sDone :
          (sOut[i].ok /\ C29_Different(sPages[i], sPages[sDone + 1])) =>
              /\ \A path \in C29_Made(sPages[i]) : C29_Same(sFs, sFs', path)
              /\ C29_Below(sFs', C29_Main(sPages[i]).dir)
                    = C29_Below(sFs, C29_Main(sPages[i]).dir)
      ]_vars

\* Q1 was written with the alias B, then Q2 with the alias B/C: the symlink
\* of Q2 lies in the canonical directory of Q1.
C29_Witness ==
    /\ sDone = 2
    /\ sOut[1].ok /\ sOut[2].ok
    /\ C29_Different(sPages[1], sPages[2])
    /\ << <<"out">>, <<"wikidata">>, <<"Q", "1">>, <<"C">> >> \in DOMAIN sFs
    /\ sFs[<< <<"out">>, <<"wikidata">>, <<"Q", "1">>, <<"C">> >>].kind = "link"

====
